---- MODULE Spec2Model ----
(***************************************************************************)
(* Health-dashboard import pipeline: the DataManagementController          *)
(* (prototypes/js/data-management.js), the three parsers it dispatches to  *)
(* and the IndexedDBManager it writes through.                             *)
(*                                                                         *)
(* The browser runs the controller on one thread.  An async method runs    *)
(* without interruption up to its next await on I/O (a file read, an       *)
(* archive entry, an IndexedDB request); every action below is one such    *)
(* run-to-suspension segment.  A continuation that becomes ready without   *)
(* I/O (the await of processFile inside handleFiles) is a microtask: while *)
(* one is pending no user event and no I/O completion is delivered.        *)
(***************************************************************************)
EXTENDS Integers, Sequences, FiniteSets, TLC

\* ------------------------------------------------------------------------
\* Bounds of the model
\* ------------------------------------------------------------------------
MaxCalls == 2
MaxBatch == 2
MaxImports == 2
MaxFiles == 3

\* ------------------------------------------------------------------------
\* Sequence helpers
\* ------------------------------------------------------------------------
Range(s) == { s[i] : i \in 1..Len(s) }

\* the concatenation of a sequence of sequences
RECURSIVE Flatten(_)
Flatten(ss) == IF ss = << >> THEN << >> ELSE Head(ss) \o Flatten(Tail(ss))

\* index of the first TRUE of a sequence of booleans, 0 when there is none
FirstIndex(bs) ==
    IF \E i \in 1..Len(bs) : bs[i]
    THEN CHOOSE i \in 1..Len(bs) : bs[i] /\ \A k \in 1..(i-1) : ~bs[k]
    ELSE 0

\* ------------------------------------------------------------------------
\* File names.  A name is a sequence of tokens: words, digits and the
\* separator characters; the functions below read it the way the string
\* methods of the source read the characters.
\* ------------------------------------------------------------------------
Separators == {".", "_", "-", " "}

\* String.prototype.toLowerCase on one token
LowerTok(t) ==
    CASE t = "ZIP"     -> "zip"
      [] t = "FHIR"    -> "fhir"
      [] t = "Samsung" -> "samsung"
      [] t = "PDF"     -> "pdf"
      [] OTHER         -> t

Lower(name) == [i \in 1..Len(name) |-> LowerTok(name[i])]

\* token t contains the substring w
TokContains(t, w) == t = w \/ (t = "allpatientdata" /\ w = "patient")

\* String.prototype.includes on a lower-cased name
Includes(name, w) == \E i \in 1..Len(name) : TokContains(name[i], w)

\* name.split('.').pop()
Extension(name) ==
    LET dots == { i \in 1..Len(name) : name[i] = "." }
        last == IF dots = {} THEN 0 ELSE CHOOSE i \in dots : \A k \in dots : k <= i
    IN  SubSeq(name, last + 1, Len(name))

DecStr(n) == <<"0", "1", "2", "3", "4", "5", "6", "7", "8", "9">>[n + 1]

generateFileId(file) ==
    [i \in 1..Len(file.name) |->
        IF file.name[i] \in Separators THEN "_" ELSE file.name[i]]
    \o <<"_", DecStr(file.size), "_", DecStr(file.lastModified)>>

detectFileType(file) ==
    LET name == Lower(file.name)
        extension == Extension(name)
    IN  IF extension = <<"zip">> /\ Includes(name, "samsung")
        THEN "samsung-health-zip"
        ELSE IF extension = <<"zip">> /\ (Includes(name, "fhir")
                  \/ Includes(name, "allpatientdata") \/ Includes(name, "patient"))
        THEN "fhir-zip"
        ELSE IF extension = <<"json">> /\ Includes(name, "fhir")
        THEN "fhir-json"
        ELSE IF extension = <<"json">>
        THEN "fhir-json"
        ELSE IF extension = <<"csv">>
        THEN "csv"
        ELSE IF extension = <<"pdf">>
        THEN "pdf"
        ELSE "unknown"

\* ------------------------------------------------------------------------
\* Records.  Every parser emits records; the model keeps of each record the
\* fields the controller reads (type) or stamps (dataType), and kind, the
\* variant of the canonical record it is.
\* ------------------------------------------------------------------------
Rec(type, kind) == [type |-> type, kind |-> kind, dataType |-> ""]

\* What a parser call produced: it threw, or it returned a ParserOutput.
Threw == [threw |-> TRUE, type |-> "", records |-> << >>, recordsByType |-> FALSE]
Output(type, records) ==
    [threw |-> FALSE, type |-> type, records |-> records, recordsByType |-> FALSE]

\* ------------------------------------------------------------------------
\* Clinical bundle parser (prototypes/js/parsers/fhir-parser.js)
\* ------------------------------------------------------------------------
\* A resource: its resourceType, whether its defining date field holds a
\* valid date, whether it has a decodable value, its primary code ("" when
\* it has no coding), its declared category, whether a medication name can
\* be extracted, and the display of its encounter type.
Res(rt, date, value, code, category, name, display) ==
    [resourceType |-> rt, date |-> date, value |-> value, code |-> code,
     category |-> category, name |-> name, display |-> display,
     entryKind |-> "none", entry |-> << >>, valid |-> TRUE]

\* A collection document: entryKind is "array" for an entry array, "object"
\* for an entry member that is no array, "none" when entry is absent.
Doc(rt, entryKind, entry) ==
    [resourceType |-> rt, date |-> FALSE, value |-> FALSE, code |-> "",
     category |-> "", name |-> FALSE, display |-> "",
     entryKind |-> entryKind, entry |-> entry, valid |-> TRUE]

\* Text that JSON.parse rejects
InvalidJson == [Doc("", "none", << >>) EXCEPT !.valid = FALSE]

\* codeMap[code] without the default of line 409
lookupWithoutDefault(code) ==
    CASE code = "29463-7" -> "weight"
      [] code = "8867-4"  -> "heart-rate"
      [] OTHER            -> ""

mapObservationCode(code) ==
    CASE code = "29463-7" -> "weight"
      [] code = "39156-5" -> "bmi"
      [] code = "85354-9" -> "blood-pressure"
      [] code = "8480-6"  -> "systolic-bp"
      [] code = "8462-4"  -> "diastolic-bp"
      [] code = "8867-4"  -> "heart-rate"
      [] code = "4548-4"  -> "hemoglobin-a1c"
      [] code = "2093-3"  -> "total-cholesterol"
      [] code = "18262-6" -> "ldl-cholesterol"
      [] code = "2085-9"  -> "hdl-cholesterol"
      [] code = "2571-8"  -> "triglycerides"
      [] code = "8310-5"  -> "body-temperature"
      [] code = "9279-1"  -> "respiratory-rate"
      [] code = "2710-2"  -> "oxygen-saturation"
      [] OTHER            -> "observation"

\* a classification that reads the category alone
isLabByCategory(category, code) == category \in {"laboratory", "diagnostic"}

isLabResult(category, code) ==
    \/ category \in {"laboratory", "diagnostic"}
    \/ code \in {"4548-4", "2093-3", "18262-6", "2085-9", "2571-8"}

\* parseResource: the list of `results` the resource is pushed to and the
\* record pushed, as a sequence of zero or one [list, rec].
parseResource(r) ==
    CASE r.resourceType = "Practitioner" ->
            << [list |-> "providers", rec |-> Rec("", "provider")] >>
      [] r.resourceType = "Observation" ->
            IF ~r.date \/ r.code = "" \/ ~r.value THEN << >>
            ELSE IF isLabResult(r.category, r.code)
            THEN << [list |-> "labResults",
                     rec |-> Rec(mapObservationCode(r.code), "lab-result")] >>
            ELSE << [list |-> "vitals",
                     rec |-> Rec(mapObservationCode(r.code), "vital")] >>
      [] r.resourceType \in {"MedicationRequest", "MedicationStatement"} ->
            IF ~r.name THEN << >>
            ELSE << [list |-> "medications", rec |-> Rec("", "medication")] >>
      [] r.resourceType = "Encounter" ->
            IF ~r.date THEN << >>
            ELSE << [list |-> "encounters",
                     rec |-> Rec(IF r.display = "" THEN "Visit" ELSE r.display,
                                 "encounter")] >>
      [] r.resourceType = "DiagnosticReport" ->
            IF ~r.date THEN << >>
            ELSE << [list |-> "labResults", rec |-> Rec("", "lab-result")] >>
      [] r.resourceType = "Condition" ->
            << [list |-> "conditions", rec |-> Rec("", "condition")] >>
      [] r.resourceType = "Procedure" ->
            IF ~r.date THEN << >>
            ELSE << [list |-> "procedures", rec |-> Rec("", "procedure")] >>
      [] OTHER -> << >>   \* Patient (kept outside the record lists), unhandled types

\* the key order of the `results` object of parseFHIRBundle
ResultLists ==
    <<"vitals", "medications", "encounters", "providers", "labResults",
      "conditions", "procedures">>

EntryResource(e) == IF e.hasResource THEN parseResource(e.resource) ELSE << >>

parseFHIRBundle(bundle) ==
    IF bundle.resourceType = "Bundle" /\ bundle.entryKind = "object"
    THEN Threw          \* bundle.entry.forEach is not a function
    ELSE
    LET pushed ==
            IF bundle.resourceType = "Bundle" /\ bundle.entryKind = "array"
            THEN Flatten([i \in 1..Len(bundle.entry) |->
                             EntryResource(bundle.entry[i])])
            ELSE IF bundle.resourceType # ""
            THEN parseResource(bundle)
            ELSE << >>
        OfList(l) ==
            LET InList(p) == p.list = l
                picked == SelectSeq(pushed, InList)
            IN  [i \in 1..Len(picked) |-> picked[i].rec]
        allRecords == Flatten([i \in 1..Len(ResultLists) |-> OfList(ResultLists[i])])
    IN  Output("fhir-bundle", allRecords)

\* FHIRParser.parseFile: JSON.parse of the text, then parseFHIRBundle
FHIRParseFile(doc) == IF ~doc.valid THEN Threw ELSE parseFHIRBundle(doc)

\* the acceptance test of the archive scan of processFHIRZip
LooksLikeBundle(doc) == doc.resourceType = "Bundle" \/ doc.entryKind # "none"

\* ------------------------------------------------------------------------
\* Vendor export parser (SamsungHealthParser)
\* ------------------------------------------------------------------------
\* parseZip rejects every archive
parseZip(file) == Threw

\* ------------------------------------------------------------------------
\* Lab document parser (PDFParser.parseFile): pdf.js opens the document or
\* fails; the records are those extractLabValues returns for its text.
\* ------------------------------------------------------------------------
LabRecord(t) == Rec(t, "lab-result")

PDFParseFile(content) ==
    IF ~content.opens THEN Threw
    ELSE Output("pdf-lab-results",
                [i \in 1..Len(content.labs) |-> LabRecord(content.labs[i])])

\* ------------------------------------------------------------------------
\* Generic CSV (processCSV, parseGenericCSV of the controller).  The text is
\* a sequence of lines, a line a sequence of comma-separated fields; the
\* blank line is the line with one empty field.
\* ------------------------------------------------------------------------
Field(line, i) == IF i <= Len(line) THEN line[i] ELSE ""

parseGenericCSV(lines) ==
    LET headers == lines[1]
        typeCol == FirstIndex([i \in 1..Len(headers) |-> headers[i] = "type"])
        Row(line) ==
            IF line = <<"">> THEN << >>
            ELSE << Rec(IF typeCol = 0 THEN "" ELSE Field(line, typeCol), "csv-row") >>
    IN  Flatten([i \in 1..(Len(lines) - 1) |-> Row(lines[i + 1])])

processCSV(lines) ==
    LET headers == Range(lines[1])
    IN  IF "medication" \in headers \/ "drug" \in headers
        THEN Output("medications", parseGenericCSV(lines))
        ELSE IF "weight" \in headers \/ "bp" \in headers
        THEN Output("vitals", parseGenericCSV(lines))
        ELSE Output("activity", parseGenericCSV(lines))

\* ------------------------------------------------------------------------
\* The files a user can hand to the controller.  Every file has the File
\* attributes generateFileId reads and its content, in the shape its format
\* gives it.
\* ------------------------------------------------------------------------
VendorExport ==      \* samsung_health.zip: 3 sleep rows and 2 step rows
    [name |-> <<"samsung", "_", "health", ".", "zip">>, size |-> 5, lastModified |-> 1,
     content |-> << [csv |-> "sleep", rows |-> 3], [csv |-> "step", rows |-> 2] >>]

BundleArchive ==     \* fhir_export.zip
    [name |-> <<"fhir", "_", "export", ".", "zip">>, size |-> 4, lastModified |-> 2,
     content |-> <<
        [json |-> FALSE, doc |-> InvalidJson],                     \* readme.txt
        [json |-> TRUE,  doc |-> InvalidJson],                     \* broken.json
        [json |-> TRUE,  doc |-> Doc("Bundle", "array", <<
            [hasResource |-> TRUE,
             resource |-> Res("Observation", TRUE, TRUE, "4548-4", "", FALSE, "")],
            [hasResource |-> TRUE,
             resource |-> Res("Encounter", TRUE, FALSE, "", "", FALSE, "")],
            [hasResource |-> TRUE,
             resource |-> Res("Observation", FALSE, TRUE, "29463-7", "", FALSE, "")] >>)],
        [json |-> TRUE,  doc |-> Doc("Bundle", "array", <<
            [hasResource |-> TRUE,
             resource |-> Res("Patient", FALSE, FALSE, "", "", FALSE, "")],
            [hasResource |-> FALSE,
             resource |-> Res("", FALSE, FALSE, "", "", FALSE, "")] >>)] >>]

BundleJson ==        \* patient.json
    [name |-> <<"patient", ".", "json">>, size |-> 3, lastModified |-> 3,
     content |-> Doc("Bundle", "array", <<
        [hasResource |-> TRUE,
         resource |-> Res("Observation", TRUE, TRUE, "8867-4", "vital-signs", FALSE, "")],
        [hasResource |-> TRUE,
         resource |-> Res("MedicationRequest", FALSE, FALSE, "", "", TRUE, "")] >>)]

LabDocument ==       \* lab.pdf
    [name |-> <<"lab", ".", "pdf">>, size |-> 2, lastModified |-> 4,
     content |-> [opens |-> TRUE, labs |-> <<"hemoglobin-a1c", "glucose">>]]

StepsCsv ==          \* steps.csv
    [name |-> <<"steps", ".", "csv">>, size |-> 1, lastModified |-> 6,
     content |-> << <<"date", "steps">>, <<"2024-01-01", "100">>, <<"">> >>]

TextFile ==          \* notes.txt
    [name |-> <<"notes", ".", "txt">>, size |-> 1, lastModified |-> 7,
     content |-> << >>]

FilePool == <<VendorExport, BundleArchive, LabDocument, TextFile>>

Files == 1..Len(FilePool)

\* the id and the detected type of every file of the pool
FileIds == [f \in Files |-> generateFileId(FilePool[f])]
FileTypes == [f \in Files |-> detectFileType(FilePool[f])]

FileId(f) == FileIds[f]
FileType(f) == FileTypes[f]

\* what the parser of its format makes of the content of every file of the
\* pool (of an archive: of every entry) once it has been read
Parsed ==
    [f \in Files |->
        CASE FileTypes[f] = "csv"       -> processCSV(FilePool[f].content)
          [] FileTypes[f] = "fhir-json" -> FHIRParseFile(FilePool[f].content)
          [] FileTypes[f] = "pdf"       -> PDFParseFile(FilePool[f].content)
          [] OTHER                      -> parseZip(FilePool[f])]

ParsedEntry ==
    [f \in Files |->
        IF FileTypes[f] = "fhir-zip"
        THEN [j \in 1..Len(FilePool[f].content) |->
                 parseFHIRBundle(FilePool[f].content[j].doc)]
        ELSE << >>]

\* A FileList: distinct files, in the order the browser lists them.
Batches ==
    UNION { { b \in [1..n -> Files] : \A i, k \in 1..n : i # k => b[i] # b[k] }
            : n \in 0..MaxBatch }

Parsers == {"SamsungHealthParser", "FHIRParser", "PDFParser"}

\* the parser scripts have all run, or the lab-document parser's has not
LoadedChoices == {Parsers, Parsers \ {"PDFParser"}}

\* the object stores of createObjectStores that carry records
Stores ==
    {"vitals", "sleep", "activity", "medications", "labResults", "providers",
     "encounters"}

\* ------------------------------------------------------------------------
\* State
\* ------------------------------------------------------------------------
VARIABLES
    loaded,             \* the parser classes present on window
    call,               \* the handleFiles calls, each with its position
    items,              \* #fileProcessingList: the status items, in document order
    previewData,        \* the controller's Map fileId -> entry, in insertion order
    importBtnDisabled,  \* importBtn.disabled
    run,                \* the importAllData calls, each with its position
    store,              \* the object stores of the database
    imports,            \* the imports ledger
    ev,                 \* the operation the last segment completed
    input,              \* the argument handed to a parser function called on its own
    output              \* what that call returned

vars ==
    <<loaded, call, items, previewData, importBtnDisabled, run, store, imports, ev,
      input, output>>

Calls == 1..MaxCalls
Runs == 1..MaxImports

Terminal == {"completed", "warning", "error"}

NoEntry == [id |-> << >>, file |-> 0, type |-> "", data |-> Threw, recordCount |-> 0]

IdleCall == [pc |-> "idle", batch |-> << >>, i |-> 0, j |-> 0]

IdleRun ==
    [pc |-> "idle", idx |-> 0, cur |-> NoEntry, plan |-> << >>, grouped |-> FALSE,
     totalImported |-> 0, outcome |-> "", msgRecords |-> 0, msgFiles |-> 0,
     rejected |-> FALSE, nFiles |-> 0, nRecords |-> 0, uploads |-> {},
     startEmpty |-> FALSE, wrote |-> FALSE]

\* The operation the last segment completed: a processFile call (with its
\* file, whether processing threw, and the number of records parsed), an
\* importAllData call (with the record of the call as it ended) or
\* clearPreview; NoEvent when the segment ended suspended.
Event(op, file, threw, n) ==
    [op |-> op, file |-> file, threw |-> threw, n |-> n, run |-> IdleRun]
ImportEvent(rr) ==
    [op |-> "importAllData", file |-> 0, threw |-> rr.rejected, n |-> 0, run |-> rr]
NoEvent == Event("none", 0, FALSE, 0)

\* no parser function is being called on its own
NoCall == [fn |-> "none"]

\* an importAllData call that has returned
DoneRun == [IdleRun EXCEPT !.pc = "done"]

Init ==
    /\ loaded \in LoadedChoices
    /\ call = [c \in Calls |-> IdleCall]
    /\ items = << >>
    /\ previewData = << >>
    /\ importBtnDisabled \in BOOLEAN
    /\ run = [r \in Runs |-> IdleRun]
    /\ store = [s \in Stores |-> << >>]
    /\ imports = << >>
    /\ ev = NoEvent
    /\ input = NoCall
    /\ output = NoCall

\* ------------------------------------------------------------------------
\* The status list and the preview Map
\* ------------------------------------------------------------------------
createProcessingItem(its, fileId) == Append(its, [id |-> fileId, status |-> "waiting"])

\* document.getElementById finds the first element with the id
updateProcessingStatus(its, fileId, status) ==
    LET k == FirstIndex([i \in 1..Len(its) |-> its[i].id = fileId])
    IN  IF k = 0 THEN its ELSE [its EXCEPT ![k].status = status]

\* Map.prototype.set: a present key keeps its place
MapSet(pd, entry) ==
    LET k == FirstIndex([i \in 1..Len(pd) |-> pd[i].id = entry.id])
    IN  IF k = 0 THEN Append(pd, entry) ELSE [pd EXCEPT ![k] = entry]

\* the status processFile ends with (lines 103-120)
TerminalStatus(out) ==
    IF out.threw THEN "error"
    ELSE IF Len(out.records) > 0 THEN "completed"
    ELSE "warning"

\* handleFiles, were what processing threw to leave processFile: the call
\* ends at the failing file
AbortOnFailure(threw) == IF threw THEN "aborted" ELSE "next"

\* where handleFiles stands after its await of processFile: processFile
\* catches whatever processing threw, so the loop always goes on
AfterProcessFile(threw) == "next"

\* no continuation is waiting in the microtask queue
Quiet == \A c \in Calls : call[c].pc # "next"

\* ------------------------------------------------------------------------
\* processFile
\* ------------------------------------------------------------------------
\* The end of processFile for file f of call c (whose record is cr): `list`
\* is the status list as the segment has left it so far, `parsed` what the
\* parser call produced (each is evaluated once, as its and out).
Settle(c, cr, f, list, parsed) ==
  \E its \in {list}, out \in {parsed} :
    LET fileId == FileId(f)
        status == TerminalStatus(out)
    IN  /\ items' = updateProcessingStatus(its, fileId, status)
        /\ previewData' =
              IF status = "completed"
              THEN MapSet(previewData,
                          [id |-> fileId, file |-> f, type |-> FileType(f),
                           data |-> out, recordCount |-> Len(out.records)])
              ELSE previewData
        /\ call' = [call EXCEPT ![c] =
                      [cr EXCEPT !.pc = AfterProcessFile(out.threw), !.i = cr.i + 1, !.j = 0]]
        /\ ev' = Event("processFile", f, out.threw, Len(out.records))
        /\ UNCHANGED <<input, output, loaded, importBtnDisabled, run, store, imports>>

\* processFile up to its first await: the status item is created and set to
\* 'processing'; an unsupported type or a missing parser ends the call at once,
\* as does the vendor archive, whose parseZip rejects.
Begin(c, cr) ==
    LET f == cr.batch[cr.i]
        fileId == FileId(f)
        fileType == FileType(f)
        its == updateProcessingStatus(createProcessingItem(items, fileId),
                                      fileId, "processing")
        Suspend ==
            /\ items' = its
            /\ call' = [call EXCEPT ![c] = [cr EXCEPT !.pc = "read"]]
            /\ ev' = NoEvent
            /\ UNCHANGED <<input, output, loaded, previewData, importBtnDisabled, run, store, imports>>
    IN  CASE fileType = "samsung-health-zip" ->
                IF "SamsungHealthParser" \in loaded
                THEN Settle(c, cr, f, updateProcessingStatus(its, fileId, "error"),
                            Parsed[f])
                ELSE Settle(c, cr, f, its, Threw)
          [] fileType \in {"fhir-zip", "fhir-json"} ->
                IF "FHIRParser" \in loaded THEN Suspend ELSE Settle(c, cr, f, its, Threw)
          [] fileType = "pdf" ->
                IF "PDFParser" \in loaded THEN Suspend ELSE Settle(c, cr, f, its, Threw)
          [] fileType = "csv" -> Suspend
          [] OTHER -> Settle(c, cr, f, its, Threw)      \* 'Unsupported file type'

\* the number of files handed to handleFiles so far
RECURSIVE FilesOf(_)
FilesOf(c) == IF c = 0 THEN 0 ELSE Len(call[c].batch) + FilesOf(c - 1)
HandedOver == FilesOf(MaxCalls)

\* handleFiles(files), up to the first await
HandleFiles(c, files) ==
    /\ Quiet
    /\ call[c].pc = "idle"
    /\ \A k \in 1..(c - 1) : call[k].pc # "idle"
    /\ Len(files) + HandedOver <= MaxFiles
    /\ IF Len(files) = 0
       THEN /\ call' = [call EXCEPT ![c] = [IdleCall EXCEPT !.pc = "done", !.i = 1]]
            /\ ev' = NoEvent
            /\ UNCHANGED <<input, output, loaded, items, previewData, importBtnDisabled, run, store,
                           imports>>
       ELSE Begin(c, [pc |-> "next", batch |-> files, i |-> 1, j |-> 0])

\* the loop of handleFiles goes on to its next file
ProcessNext(c) ==
    /\ call[c].pc = "next"
    /\ call[c].i <= Len(call[c].batch)
    /\ Begin(c, call[c])

\* the loop of handleFiles is over: showPreviewSection
HandleFilesEnd(c) ==
    /\ call[c].pc = "next"
    /\ call[c].i > Len(call[c].batch)
    /\ importBtnDisabled' = (Len(previewData) = 0)
    /\ call' = [call EXCEPT ![c].pc = "done"]
    /\ ev' = NoEvent
    /\ UNCHANGED <<input, output, loaded, items, previewData, run, store, imports>>

\* the entry at `from`, whatever its path
nextEntry(entries, from) == IF from <= Len(entries) THEN from ELSE 0

\* the first entry of the archive at or after `from` whose path ends in .json
NextJson(entries, from) ==
    LET S == { k \in from..Len(entries) : entries[k].json }
    IN  IF S = {} THEN 0 ELSE CHOOSE k \in S : \A m \in S : k <= m

\* processFHIRZip: read the next JSON entry, or fail with 'No valid FHIR bundle'
ScanFrom(c, cr, f, its, from) ==
    LET k == NextJson(FilePool[f].content, from)
    IN  IF k = 0
        THEN Settle(c, cr, f, updateProcessingStatus(its, FileId(f), "error"), Threw)
        ELSE /\ items' = its
             /\ call' = [call EXCEPT ![c] = [cr EXCEPT !.pc = "scan", !.j = k]]
             /\ ev' = NoEvent
             /\ UNCHANGED <<input, output, loaded, previewData, importBtnDisabled, run, store, imports>>

\* the file read (and, for a document or an archive, its opening) completes
FileRead(c) ==
    /\ Quiet
    /\ call[c].pc = "read"
    /\ \E ok \in BOOLEAN :
        LET cr == call[c]
            f == cr.batch[cr.i]
        IN  CASE FileType(f) \in {"csv", "fhir-json", "pdf"} ->
                    Settle(c, cr, f, items, IF ok THEN Parsed[f] ELSE Threw)
              [] OTHER ->      \* fhir-zip
                    IF ok
                    THEN ScanFrom(c, cr, f,
                                  updateProcessingStatus(items, FileId(f), "processing"), 1)
                    ELSE Settle(c, cr, f,
                                updateProcessingStatus(items, FileId(f), "error"), Threw)

\* an archive entry's text arrives (or its extraction fails)
ZipEntryRead(c) ==
    /\ Quiet
    /\ call[c].pc = "scan"
    /\ \E ok \in BOOLEAN :
        LET cr == call[c]
            f == cr.batch[cr.i]
            doc == FilePool[f].content[cr.j].doc
        IN  IF ok /\ doc.valid /\ LooksLikeBundle(doc)
            THEN LET out == ParsedEntry[f][cr.j]
                 IN  Settle(c, cr, f,
                            updateProcessingStatus(items, FileId(f),
                                IF out.threw THEN "error" ELSE "processing"),
                            out)
            ELSE ScanFrom(c, cr, f, items, cr.j + 1)

\* ------------------------------------------------------------------------
\* importAllData
\* ------------------------------------------------------------------------
mapDataTypeToStore(dataType) ==
    CASE dataType = "vitals"                -> "vitals"
      [] dataType = "sleep"                 -> "sleep"
      [] dataType = "activity"              -> "activity"
      [] dataType = "medications"           -> "medications"
      [] dataType = "lab-results"           -> "labResults"
      [] dataType = "providers"             -> "providers"
      [] dataType = "encounters"            -> "encounters"
      [] dataType = "samsung-health-export" -> "activity"
      [] dataType = "fhir-bundle"           -> "encounters"
      [] OTHER                              -> "vitals"

\* record.type || 'activity'
GroupKey(rec) == IF rec.type = "" THEN "activity" ELSE rec.type

RECURSIVE DistinctKeys(_, _)
DistinctKeys(records, seen) ==
    IF records = << >> THEN << >>
    ELSE LET k == GroupKey(Head(records))
         IN  IF k \in seen THEN DistinctKeys(Tail(records), seen)
             ELSE <<k>> \o DistinctKeys(Tail(records), seen \cup {k})

\* the groups, in the order their keys were first set
groupRecordsByActualType(records) ==
    LET keys == DistinctKeys(records, {})
    IN  [i \in 1..Len(keys) |->
            [type |-> keys[i],
             records |-> SelectSeq(records, LAMBDA r : GroupKey(r) = keys[i])]]

\* of preprocessRecords, the stamp the controller reads back: dataType
preprocessRecords(records, dataType) ==
    [i \in 1..Len(records) |-> [records[i] EXCEPT !.dataType = dataType]]

\* the test that selects the regrouping branch of importAllData (line 478)
IsGrouped(entry) == entry.type = "samsung-health-export" /\ entry.data.recordsByType

\* the addRecords calls importAllData makes for one preview entry
ImportPlan(entry) ==
    IF IsGrouped(entry)
    THEN LET g == groupRecordsByActualType(entry.data.records)
         IN  [i \in 1..Len(g) |->
                 [storeName |-> mapDataTypeToStore(g[i].type),
                  records |-> preprocessRecords(g[i].records, g[i].type)]]
    ELSE << [storeName |-> mapDataTypeToStore(entry.type),
             records |-> preprocessRecords(entry.data.records, entry.type)] >>

\* What the store keeps of the first k records of one addRecords request,
\* each with the file it came from and whether it is the last of the request.
Stored(f, records, k) ==
    [i \in 1..k |->
        [file |-> f, type |-> records[i].type, kind |-> records[i].kind,
         dataType |-> records[i].dataType, last |-> (i = Len(records))]]

\* the vendor exports whose processFile has ended since the status list was
\* last wiped
Uploaded ==
    { f \in Files : /\ FileType(f) = "samsung-health-zip"
                    /\ \E k \in 1..Len(items) :
                          items[k].id = FileId(f) /\ items[k].status \in Terminal }

\* clearPreview without previewData.clear()
keepPreview(pd, its) == [previewData |-> pd, items |-> << >>]

\* clearPreview: the Map and the status list are emptied
clearPreview(pd, its) == [previewData |-> << >>, items |-> << >>]

\* A Map iterator keeps its place across clear(): entries set afterwards are
\* still visited.  With the emptied entries dropped, its place is 0 again.
ResetIterators(runs, pd) ==
    [r \in Runs |-> [runs[r] EXCEPT !.idx = IF pd = << >> THEN 0 ELSE @]]

\* the next step of the for-of loop over previewData
Advance(rr) ==
    IF rr.idx < Len(previewData)
    THEN LET e == previewData[rr.idx + 1]
         IN  [rr EXCEPT !.idx = rr.idx + 1, !.cur = e, !.plan = ImportPlan(e),
                        !.grouped = IsGrouped(e),
                        !.pc = IF ImportPlan(e) = << >> THEN "recordImport"
                               ELSE "addRecords"]
    ELSE [rr EXCEPT !.cur = NoEntry, !.plan = << >>, !.pc = "refresh"]

\* a catch block that swallows the rejection and reports success
swallowRejection(rr) == [rr EXCEPT !.pc = "done", !.outcome = "success"]

\* the catch block of importAllData: showErrorMessage
importCatch(rr) == [rr EXCEPT !.pc = "done", !.outcome = "error"]

\* the text of the success message, read after clearPreview has run
successMessage(totalImported, pd) == [records |-> totalImported, files |-> Len(pd)]

\* a click on the import button
ImportAllData(r) ==
    /\ Quiet
    /\ run[r].pc = "idle"
    /\ \A k \in 1..(r - 1) : run[k].pc # "idle"
    /\ ~importBtnDisabled
    /\ importBtnDisabled' = TRUE
    /\ run' = [run EXCEPT ![r] =
                 Advance([IdleRun EXCEPT !.uploads = Uploaded,
                                         !.startEmpty = (previewData = << >>)])]
    /\ ev' = NoEvent
    /\ UNCHANGED <<input, output, loaded, call, items, previewData, store, imports>>

AddRecordsResolve(r) ==
    /\ Quiet
    /\ run[r].pc = "addRecords"
    /\ LET rr == run[r]
           w == Head(rr.plan)
           rest == Tail(rr.plan)
       IN  /\ store' = [store EXCEPT ![w.storeName] =
                            @ \o Stored(rr.cur.file, w.records, Len(w.records))]
           /\ run' = [run EXCEPT ![r] =
                        [rr EXCEPT !.plan = rest, !.wrote = TRUE,
                                   !.totalImported =
                                        IF rr.grouped THEN @ + Len(w.records) ELSE @,
                                   !.pc = IF rest = << >> THEN "recordImport"
                                          ELSE "addRecords"]]
           /\ ev' = NoEvent
    /\ UNCHANGED <<input, output, loaded, call, items, previewData, importBtnDisabled, imports>>

\* addRecords rejects; the requests made before the failing one may have
\* been committed
AddRecordsReject(r) ==
    /\ Quiet
    /\ run[r].pc = "addRecords"
    /\ LET rr == run[r]
           w == Head(rr.plan)
       IN  \E k \in 0..(Len(w.records) - 1) :
            /\ store' = [store EXCEPT ![w.storeName] =
                            @ \o Stored(rr.cur.file, w.records, k)]
            /\ run' = [run EXCEPT ![r] = DoneRun]
            /\ ev' = ImportEvent(importCatch([rr EXCEPT !.wrote = (@ \/ k > 0),
                                                       !.rejected = TRUE]))
    /\ importBtnDisabled' = FALSE
    /\ UNCHANGED <<input, output, loaded, call, items, previewData, imports>>

RecordImportResolve(r) ==
    /\ Quiet
    /\ run[r].pc = "recordImport"
    /\ LET rr == run[r]
           n == Len(rr.cur.data.records)
       IN  /\ imports' = Append(imports,
                            [fileType |-> rr.cur.type,
                             fileName |-> FilePool[rr.cur.file].name,
                             recordsImported |-> n])
           /\ run' = [run EXCEPT ![r] =
                        Advance([rr EXCEPT !.totalImported =
                                                IF rr.grouped THEN @ ELSE @ + n,
                                           !.nFiles = @ + 1,
                                           !.nRecords = @ + rr.cur.recordCount])]
           /\ ev' = NoEvent
    /\ UNCHANGED <<input, output, loaded, call, items, previewData, importBtnDisabled, store>>

RecordImportReject(r) ==
    /\ Quiet
    /\ run[r].pc = "recordImport"
    /\ run' = [run EXCEPT ![r] = DoneRun]
    /\ importBtnDisabled' = FALSE
    /\ ev' = ImportEvent(importCatch([run[r] EXCEPT !.rejected = TRUE]))
    /\ UNCHANGED <<input, output, loaded, call, items, previewData, store, imports>>

\* updateDataCounts and loadImportHistory have returned (neither rejects):
\* clearPreview, the success message, the finally block
ImportFinish(r) ==
    /\ Quiet
    /\ run[r].pc = "refresh"
    /\ LET cleared == clearPreview(previewData, items)
           msg == successMessage(run[r].totalImported, cleared.previewData)
           reset == ResetIterators(run, cleared.previewData)
       IN  /\ previewData' = cleared.previewData
           /\ items' = cleared.items
           /\ run' = [reset EXCEPT ![r] = DoneRun]
           /\ ev' = ImportEvent([run[r] EXCEPT !.pc = "done", !.outcome = "success",
                                               !.msgRecords = msg.records,
                                               !.msgFiles = msg.files])
    /\ importBtnDisabled' = FALSE
    /\ UNCHANGED <<input, output, loaded, call, store, imports>>

\* a click on the clear button
ClearPreview ==
    /\ Quiet
    /\ LET cleared == clearPreview(previewData, items)
       IN  /\ previewData' = cleared.previewData
           /\ items' = cleared.items
           /\ run' = ResetIterators(run, cleared.previewData)
    /\ ev' = Event("clearPreview", 0, FALSE, 0)
    /\ UNCHANGED <<input, output, loaded, call, importBtnDisabled, store, imports>>

\* ------------------------------------------------------------------------
\* Specification
\* ------------------------------------------------------------------------
Next ==
    \/ \E c \in Calls, files \in Batches : HandleFiles(c, files)
    \/ \E c \in Calls : ProcessNext(c)
    \/ \E c \in Calls : HandleFilesEnd(c)
    \/ \E c \in Calls : FileRead(c)
    \/ \E c \in Calls : ZipEntryRead(c)
    \/ \E r \in Runs : ImportAllData(r)
    \/ \E r \in Runs : AddRecordsResolve(r)
    \/ \E r \in Runs : AddRecordsReject(r)
    \/ \E r \in Runs : RecordImportResolve(r)
    \/ \E r \in Runs : RecordImportReject(r)
    \/ \E r \in Runs : ImportFinish(r)
    \/ ClearPreview

Spec == Init /\ [][Next]_vars

\* ------------------------------------------------------------------------
\* Properties
\* ------------------------------------------------------------------------
\* no importAllData call is in flight
Quiescent == \A r \in Runs : run[r].pc \in {"idle", "done"}

\* the ledger entries of file f
LedgerOf(f) == { k \in 1..Len(imports) : imports[k].fileName = FilePool[f].name }

\* the records of file f kept in store s
RecordsOf(f, s) == { k \in 1..Len(store[s]) : store[s][k].file = f }

\* every record of some addRecords request for file f has been written
Written(f) == \E s \in Stores : \E k \in RecordsOf(f, s) : store[s][k].last

\* the status shown for file f: that of the first item carrying its id
Shown(f) ==
    LET k == FirstIndex([i \in 1..Len(items) |-> items[i].id = FileId(f)])
    IN  IF k = 0 THEN "none" ELSE items[k].status

\* C1: a status item that shows a terminal status ('completed', 'warning'
\* or 'error') keeps showing a terminal status for as long as it is in the
\* list: no step, a second upload of the same file included, takes it back
\* to 'processing'.
C1_StatusNeverRegresses ==
    [][\A k \in 1..Len(items) :
          (items[k].status \in Terminal /\ k <= Len(items'))
              => items'[k].status \in Terminal]_vars

\* C2: whenever no import is in flight, the ledger holds exactly one entry
\* for each file whose records were written to the store and none for a
\* file whose records were not written.
C2_OneBatchPerWrittenFile ==
    Quiescent =>
        \A f \in Files : Cardinality(LedgerOf(f)) = IF Written(f) THEN 1 ELSE 0

\* Uploads alone, under the browser's scheduling: a ready continuation runs,
\* and a read that was started completes (with its data or with an error).
UploadNext ==
    \/ \E c \in Calls, files \in Batches : HandleFiles(c, files)
    \/ \E c \in Calls : ProcessNext(c)
    \/ \E c \in Calls : HandleFilesEnd(c)
    \/ \E c \in Calls : FileRead(c)
    \/ \E c \in Calls : ZipEntryRead(c)

UploadSpec ==
    /\ Init
    /\ [][UploadNext]_vars
    /\ \A c \in Calls :
          /\ WF_vars(ProcessNext(c))
          /\ WF_vars(HandleFilesEnd(c))
          /\ WF_vars(FileRead(c))
          /\ WF_vars(ZipEntryRead(c))

\* a step that ends processFile for ev'.file with a failure
FailureStep == ev'.op = "processFile" /\ ev'.threw

\* C3: a step in which processing one file fails leaves every status item
\* of another file as it was, turns no other file's status to 'error', adds
\* nothing to the preview set, and hands control back to the loop of
\* handleFiles; and every file of a batch handed to handleFiles is eventually
\* processed to the end and shows a terminal status.
C3_FailureIsolated ==
    /\ [][FailureStep =>
            LET fileId == FileId(ev'.file)
            IN  /\ \A k \in 1..Len(items) :
                      items[k].id # fileId
                          => k <= Len(items') /\ items'[k] = items[k]
                /\ \A k \in 1..Len(items') :
                      items'[k].id # fileId => k <= Len(items)
                /\ previewData' = previewData
                /\ \E c \in Calls :
                      /\ call'[c].pc = "next"
                      /\ call'[c].i > 1
                      /\ call'[c].batch[call'[c].i - 1] = ev'.file]_vars
    /\ \A c \in Calls, p \in 1..MaxBatch :
          (call[c].pc # "idle" /\ p <= Len(call[c].batch) /\ call[c].i <= p)
              ~> (call[c].i > p /\ Shown(call[c].batch[p]) \in Terminal)

\* a batch whose first file failed and whose second file was then processed
C3_Witness ==
    \E c \in Calls :
        /\ call[c].pc = "done"
        /\ Len(call[c].batch) = 2
        /\ Shown(call[c].batch[1]) = "error"
        /\ Shown(call[c].batch[2]) = "completed"

\* the files of the multi-category formats: vendor exports, clinical bundles
MultiCategory == { f \in Files : FileType(f) \in {"samsung-health-zip", "fhir-zip", "fhir-json"} }

\* C4: every stored record of a vendor-export or clinical-bundle file was
\* written as part of the group of its own type: it is stamped with that
\* type and sits in the store category mapped from it.
C4_RecordsRegroupedByType ==
    \A s \in Stores : \A k \in 1..Len(store[s]) :
        store[s][k].file \in MultiCategory
            => /\ store[s][k].dataType = GroupKey(store[s][k])
               /\ s = mapDataTypeToStore(GroupKey(store[s][k]))

\* the number of rows the CSV files of a vendor export hold whose name
\* contains word
Rows(f, word) ==
    LET Has(e) == e.csv = word
        picked == SelectSeq(FilePool[f].content, Has)
        RECURSIVE Sum(_)
        Sum(es) == IF es = << >> THEN 0 ELSE Head(es).rows + Sum(Tail(es))
    IN  Sum(picked)

\* C5: when an import that began after a vendor export was uploaded ends
\* with success, the ledger holds exactly one entry for the export, with
\* recordsImported = sleep rows + step rows; the sleep records are in the
\* sleep category and the step records in the activity category.
C5_VendorExportImported ==
    (ev.op = "importAllData" /\ ev.run.outcome = "success")
        => \A f \in ev.run.uploads :
              /\ Cardinality(LedgerOf(f)) = 1
              /\ \A k \in LedgerOf(f) :
                    imports[k].recordsImported = Rows(f, "sleep") + Rows(f, "step")
              /\ Cardinality(RecordsOf(f, "sleep")) = Rows(f, "sleep")
              /\ Cardinality(RecordsOf(f, "activity")) = Rows(f, "step")

\* the import that has just ended
Ended == ev.op = "importAllData"
Succeeded == Ended /\ ev.run.outcome = "success"

\* C6: an importAllData call in which addRecords or recordImport rejected
\* ends with the error message, never with the success message; and no step
\* takes a record out of a store: what earlier calls wrote remains.
C6_RejectionSurfaced ==
    [][/\ (ev'.op = "importAllData" /\ ev'.run.rejected)
            => ev'.run.outcome = "error"
       /\ \A s \in Stores :
            /\ Len(store[s]) <= Len(store'[s])
            /\ SubSeq(store'[s], 1, Len(store[s])) = store[s]]_vars

\* an import that was rejected after it had written records
C6_Witness ==
    /\ Ended /\ ev.run.rejected /\ ev.run.wrote
    /\ \E f \in Files : Written(f)

\* C7: when processFile has just finished for a file whose status item is
\* in the list, the status shown for it is 'error' if processing threw,
\* 'completed' if records were parsed and 'warning' if none were; and the
\* preview set holds an entry for the file exactly when that status is
\* 'completed', with recordCount the number of parsed records.
C7_StatusMatchesOutcome ==
    (ev.op = "processFile" /\ Shown(ev.file) # "none") =>
        LET f == ev.file
            entries == { k \in 1..Len(previewData) : previewData[k].id = FileId(f) }
        IN  /\ Shown(f) = (IF ev.threw THEN "error"
                           ELSE IF ev.n > 0 THEN "completed" ELSE "warning")
            /\ (entries # {}) <=> (Shown(f) = "completed")
            /\ \A k \in entries : previewData[k].recordCount = ev.n

\* C8: the success message of an import names the number of records and
\* the number of files of the preview entries it imported.
C8_SummaryReportsTotals ==
    Succeeded => /\ ev.run.msgRecords = ev.run.nRecords
                 /\ ev.run.msgFiles = ev.run.nFiles

\* C9: when an import has just succeeded, and when clearPreview has just
\* run, the preview set and the status list are empty; and an importAllData
\* call that starts with an empty preview set writes no record and appends
\* no ledger entry.
C9_SessionEmptied ==
    /\ (Succeeded \/ ev.op = "clearPreview")
          => previewData = << >> /\ items = << >>
    /\ \A r \in Runs :
          run[r].startEmpty => ~run[r].wrote /\ run[r].nFiles = 0
    /\ (Ended /\ ev.run.startEmpty)
          => ~ev.run.wrote /\ ev.run.nFiles = 0 /\ ev.run.totalImported = 0

\* a second import under way that started on an empty preview set, after a
\* first one that recorded a file has returned
C9_Witness ==
    /\ run[1].pc = "done" /\ imports # << >>
    /\ run[2].pc = "refresh" /\ run[2].startEmpty

\* C10: at most one processFile execution is in progress at a time.
C10_OneFileAtATime ==
    Cardinality({ c \in Calls : call[c].pc \in {"read", "scan"} }) <= 1

\* ------------------------------------------------------------------------
\* JavaScript values of the field normalizers.  A string is a sequence of
\* one-character strings; a value is a record tagged with its type, so
\* that null, a number, NaN and a string can be compared.
\* ------------------------------------------------------------------------
Null == [t |-> "null", n |-> 0, s |-> << >>]
NaN == [t |-> "NaN", n |-> 0, s |-> << >>]
Num(n) == [t |-> "number", n |-> n, s |-> << >>]
Str(s) == [t |-> "string", n |-> 0, s |-> s]

\* ToBoolean(v) is false
Falsy(v) == v \in {Null, NaN, Num(0), Str(<< >>)}

DigitChars == <<"0", "1", "2", "3", "4", "5", "6", "7", "8", "9">>

IsDigit(c) == c \in Range(DigitChars)

DigitVal(c) == FirstIndex([i \in 1..10 |-> DigitChars[i] = c]) - 1

\* String.prototype.includes for one character
HasChar(s, c) == \E i \in 1..Len(s) : s[i] = c

\* the longest prefix of s made of digits
LeadingDigits(s) ==
    LET stop == FirstIndex([i \in 1..Len(s) |-> ~IsDigit(s[i])])
    IN  IF stop = 0 THEN s ELSE SubSeq(s, 1, stop - 1)

\* the value of a string of digits
RECURSIVE Decimal(_)
Decimal(ds) ==
    IF ds = << >> THEN 0
    ELSE 10 * Decimal(SubSeq(ds, 1, Len(ds) - 1)) + DigitVal(ds[Len(ds)])

\* s without its leading white space
RECURSIVE TrimStart(_)
TrimStart(s) == IF s # << >> /\ Head(s) = " " THEN TrimStart(Tail(s)) ELSE s

\* the global parseInt on a string: white space, a sign, then the digits
\* up to the first other character; NaN when there is no digit
parseInt(s) ==
    LET t == TrimStart(s)
        neg == t # << >> /\ Head(t) = "-"
        u == IF t # << >> /\ Head(t) \in {"-", "+"} THEN Tail(t) ELSE t
        ds == LeadingDigits(u)
    IN  IF ds = << >> THEN NaN
        ELSE Num(IF neg THEN 0 - Decimal(ds) ELSE Decimal(ds))

\* String.prototype.split on one character
RECURSIVE Split(_, _)
Split(s, c) ==
    LET at == FirstIndex([i \in 1..Len(s) |-> s[i] = c])
    IN  IF at = 0 THEN << s >>
        ELSE << SubSeq(s, 1, at - 1) >> \o Split(SubSeq(s, at + 1, Len(s)), c)

\* the decimal digits of n, left-padded with zeros to w characters
RECURSIVE Pad(_, _)
Pad(n, w) ==
    IF w = 0 THEN << >> ELSE Pad(n \div 10, w - 1) \o << DigitChars[(n % 10) + 1] >>

\* ------------------------------------------------------------------------
\* The Date object the normalizers go through.  An instant is a day number
\* since 1970-01-01 and the milliseconds into that day (UTC); tz is the
\* offset of the browser's local time, in minutes east of UTC.
\* ------------------------------------------------------------------------
MsPerDay == 86400000
MsPerMinute == 60000

InvalidDate == [valid |-> FALSE, day |-> 0, ms |-> 0]

Instant(day, ms) == [valid |-> TRUE, day |-> day + (ms \div MsPerDay), ms |-> ms % MsPerDay]

\* new Date(number)
DateOfNumber(n) == Instant(0, n)

\* day number of the civil date y-m-d (proleptic Gregorian calendar)
DaysFromCivil(y, m, d) ==
    LET yy == IF m <= 2 THEN y - 1 ELSE y
        era == yy \div 400
        yoe == yy - era * 400
        mp == IF m > 2 THEN m - 3 ELSE m + 9
        doy == ((153 * mp + 2) \div 5) + d - 1
        doe == yoe * 365 + (yoe \div 4) - (yoe \div 100) + doy
    IN  era * 146097 + doe - 719468

\* the civil date of a day number
CivilFromDays(day) ==
    LET z == day + 719468
        era == z \div 146097
        doe == z - era * 146097
        yoe == (doe - (doe \div 1460) + (doe \div 36524) - (doe \div 146096)) \div 365
        doy == doe - (365 * yoe + (yoe \div 4) - (yoe \div 100))
        mp == (5 * doy + 2) \div 153
        d == doy - ((153 * mp + 2) \div 5) + 1
        m == IF mp < 10 THEN mp + 3 ELSE mp - 9
    IN  [y |-> yoe + era * 400 + (IF m <= 2 THEN 1 ELSE 0), m |-> m, d |-> d]

AllDigits(s) == \A i \in 1..Len(s) : IsDigit(s[i])

\* "YYYY-MM-DD"
IsDatePart(s) ==
    /\ Len(s) = 10
    /\ s[5] = "-" /\ s[8] = "-"
    /\ AllDigits(SubSeq(s, 1, 4) \o SubSeq(s, 6, 7) \o SubSeq(s, 9, 10))
    /\ Decimal(SubSeq(s, 6, 7)) \in 1..12
    /\ Decimal(SubSeq(s, 9, 10)) \in 1..31

\* "HH:mm:ss"
IsTimePart(s) ==
    /\ Len(s) = 8
    /\ s[3] = ":" /\ s[6] = ":"
    /\ AllDigits(SubSeq(s, 1, 2) \o SubSeq(s, 4, 5) \o SubSeq(s, 7, 8))
    /\ Decimal(SubSeq(s, 1, 2)) \in 0..23
    /\ Decimal(SubSeq(s, 4, 5)) \in 0..59
    /\ Decimal(SubSeq(s, 7, 8)) \in 0..59

DayOfDatePart(s) ==
    DaysFromCivil(Decimal(SubSeq(s, 1, 4)), Decimal(SubSeq(s, 6, 7)),
                  Decimal(SubSeq(s, 9, 10)))

MsOfTimePart(s) ==
    ((Decimal(SubSeq(s, 1, 2)) * 60 + Decimal(SubSeq(s, 4, 5))) * 60
        + Decimal(SubSeq(s, 7, 8))) * 1000

\* the instant of a date and time of day read in the zone written after it
ZonedInstant(day, ms, zone, tz) ==
    IF zone = << "Z" >> THEN Instant(day, ms)
    ELSE IF zone = << >> THEN Instant(day, ms - tz * MsPerMinute)
    ELSE InvalidDate

\* rest, the text after the seconds, starts with a fraction ".sss"
HasFraction(rest) == Len(rest) >= 4 /\ rest[1] = "." /\ AllDigits(SubSeq(rest, 2, 4))

FractionOf(rest) == IF HasFraction(rest) THEN Decimal(SubSeq(rest, 2, 4)) ELSE 0

ZoneOf(rest) == IF HasFraction(rest) THEN SubSeq(rest, 5, Len(rest)) ELSE rest

\* new Date(string): the date-time string format.  A date alone is UTC; a
\* date and time without a zone is local time; anything else is invalid.
DateOfString(s, tz) ==
    IF IsDatePart(s) THEN Instant(DayOfDatePart(s), 0)
    ELSE IF /\ Len(s) >= 19
            /\ IsDatePart(SubSeq(s, 1, 10))
            /\ s[11] = "T"
            /\ IsTimePart(SubSeq(s, 12, 19))
    THEN ZonedInstant(DayOfDatePart(SubSeq(s, 1, 10)),
                      MsOfTimePart(SubSeq(s, 12, 19)) + FractionOf(SubSeq(s, 20, Len(s))),
                      ZoneOf(SubSeq(s, 20, Len(s))), tz)
    ELSE InvalidDate

\* the text of the civil date c, the second secs and the millisecond
\* millis of the day
IsoText(c, secs, millis) ==
    Pad(c.y, 4) \o << "-" >> \o Pad(c.m, 2) \o << "-" >> \o Pad(c.d, 2) \o << "T" >>
    \o Pad(secs \div 3600, 2) \o << ":" >> \o Pad((secs \div 60) % 60, 2) \o << ":" >>
    \o Pad(secs % 60, 2) \o << "." >> \o Pad(millis, 3) \o << "Z" >>

\* Date.prototype.toISOString
toISOString(date) == IsoText(CivilFromDays(date.day), date.ms \div 1000, date.ms % 1000)

\* String.prototype.replace of the first occurrence of one character
ReplaceFirst(s, c, by) ==
    LET at == FirstIndex([i \in 1..Len(s) |-> s[i] = c])
    IN  IF at = 0 THEN s ELSE [s EXCEPT ![at] = by]

\* ------------------------------------------------------------------------
\* Field normalizers of the vendor export parser (SamsungHealthParser)
\* ------------------------------------------------------------------------
\* isNaN(timestamp.getTime()) ? null : timestamp.toISOString()
IsoOrNull(timestamp) == IF timestamp.valid THEN Str(toISOString(timestamp)) ELSE Null

\* the branch for a string without a space and without a 'T'
DateOfEpochOrText(num, s, tz) ==
    IF num # NaN THEN DateOfNumber(num.n) ELSE DateOfString(s, tz)

\* new Date(...) of parseTimestamp for the string s
DateOfStamp(s, tz) ==
    IF HasChar(s, " ") THEN DateOfString(ReplaceFirst(s, " ", "T"), tz)
    ELSE IF HasChar(s, "T") THEN DateOfString(s, tz)
    ELSE DateOfEpochOrText(parseInt(s), s, tz)

\* a value that is not a string has no includes method: the TypeError is
\* caught and null returned
parseTimestamp(timestampStr, tz) ==
    IF Falsy(timestampStr) THEN Null
    ELSE IF timestampStr.t # "string" THEN Null
    ELSE IsoOrNull(DateOfStamp(timestampStr.s, tz))

\* timestamp.split('T')[0] of a timestamp that is not null
DatePortion(timestamp) ==
    IF Falsy(timestamp) THEN Null ELSE Str(Split(timestamp.s, "T")[1])

parseDate(dateStr, tz) ==
    IF Falsy(dateStr) THEN Null ELSE DatePortion(parseTimestamp(dateStr, tz))

\* Math.floor(h * 60 + m + s / 60) on the results of parseInt
FloorMinutes(h, m, s) ==
    IF NaN \in {h, m, s} THEN NaN ELSE Num(h.n * 60 + m.n + (s.n \div 60))

\* the branch of parseDuration for a string that holds a colon
MinutesOfParts(parts) ==
    IF Len(parts) = 3
    THEN FloorMinutes(parseInt(parts[1]), parseInt(parts[2]), parseInt(parts[3]))
    ELSE IF Len(parts) = 2
    THEN FloorMinutes(parseInt(parts[1]), parseInt(parts[2]), Num(0))
    ELSE Num(0)

\* the branches of parseDuration for the string str, num its parseInt
MinutesOf(str, num) ==
    IF num # NaN
    THEN IF num.n > MsPerDay THEN Num(num.n \div MsPerMinute) ELSE num
    ELSE IF HasChar(str, ":") THEN MinutesOfParts(Split(str, ":"))
    ELSE Num(0)

parseDuration(durationStr) ==
    IF Falsy(durationStr) THEN Num(0)
    ELSE IF durationStr.t = "number" THEN durationStr
    ELSE MinutesOf(durationStr.s, parseInt(durationStr.s))

\* ------------------------------------------------------------------------
\* Row mappers of the vendor export parser.  A record is the object
\* parseCSVText builds from a row: a function from the header names to the
\* cells; a column the header does not name reads as undefined.
\* ------------------------------------------------------------------------
Col_day == << "d", "a", "y" >>
Col_date == << "d", "a", "t", "e" >>
Col_create_time == << "c", "r", "e", "a", "t", "e", "_", "t", "i", "m", "e" >>
Col_start_time == << "s", "t", "a", "r", "t", "_", "t", "i", "m", "e" >>
Col_startTime == << "s", "t", "a", "r", "t", "T", "i", "m", "e" >>
Col_weight == << "w", "e", "i", "g", "h", "t" >>
Col_heart_rate == << "h", "e", "a", "r", "t", "_", "r", "a", "t", "e" >>
Col_hr == << "h", "r" >>
Col_stress_level == << "s", "t", "r", "e", "s", "s", "_", "l", "e", "v", "e", "l" >>
Col_stress == << "s", "t", "r", "e", "s", "s" >>
Col_exercise_type ==
    << "e", "x", "e", "r", "c", "i", "s", "e", "_", "t", "y", "p", "e" >>
Col_workout_type == << "w", "o", "r", "k", "o", "u", "t", "_", "t", "y", "p", "e" >>

\* record.col
Get(record, col) == IF col \in DOMAIN record.fields THEN Str(record.fields[col]) ELSE Null

\* a || b || ... : the first truthy operand, else the last
RECURSIVE OrElse(_)
OrElse(vs) ==
    IF Len(vs) = 1 \/ ~Falsy(Head(vs)) THEN Head(vs) ELSE OrElse(Tail(vs))

\* the record a mapper returns: its date and type
Mapped(date, type) == [date |-> date, type |-> type]

\* the sleep record of a row whose start time is startTime
SleepOf(startTime) ==
    IF Falsy(startTime) THEN << >>
    ELSE << Mapped(Str(Split(startTime.s, "T")[1]), "sleep") >>

processSleepRecord(record, tz) ==
    SleepOf(parseTimestamp(OrElse(<< Get(record, Col_start_time),
                                     Get(record, Col_startTime) >>), tz))

\* the activity record of a row whose date is date
ActivityOf(record, date) ==
    IF Falsy(date) THEN << >>
    ELSE IF ~Falsy(Get(record, Col_exercise_type))
              \/ ~Falsy(Get(record, Col_workout_type))
    THEN << Mapped(date, "exercise") >>
    ELSE << Mapped(date, "daily-activity") >>

processActivityRecord(record, tz) ==
    ActivityOf(record,
               parseDate(OrElse(<< Get(record, Col_day), Get(record, Col_date),
                                   Get(record, Col_start_time) >>), tz))

\* a vitals mapper that does not test the date it resolved
KeepUndatedRow(record, date) ==
    IF ~Falsy(Get(record, Col_weight))
    THEN << Mapped(date, "weight") >>
    ELSE IF ~Falsy(Get(record, Col_heart_rate)) \/ ~Falsy(Get(record, Col_hr))
    THEN << Mapped(date, "heart-rate") >>
    ELSE IF ~Falsy(Get(record, Col_stress_level)) \/ ~Falsy(Get(record, Col_stress))
    THEN << Mapped(date, "stress") >>
    ELSE << >>

\* the vitals record of a row whose date is date
VitalsOf(record, date) ==
    IF Falsy(date) THEN << >>
    ELSE IF ~Falsy(Get(record, Col_weight))
    THEN << Mapped(date, "weight") >>
    ELSE IF ~Falsy(Get(record, Col_heart_rate)) \/ ~Falsy(Get(record, Col_hr))
    THEN << Mapped(date, "heart-rate") >>
    ELSE IF ~Falsy(Get(record, Col_stress_level)) \/ ~Falsy(Get(record, Col_stress))
    THEN << Mapped(date, "stress") >>
    ELSE << >>

processVitalsRecord(record, tz) ==
    VitalsOf(record,
             parseDate(OrElse(<< Get(record, Col_day), Get(record, Col_date),
                                 Get(record, Col_create_time) >>), tz))

\* the generic record of a row whose date is date
GenericOf(dataType, date) ==
    IF Falsy(date) THEN << >> ELSE << Mapped(date, dataType) >>

processGenericRecord(record, dataType, tz) ==
    GenericOf(dataType,
              parseDate(OrElse(<< Get(record, Col_day), Get(record, Col_date),
                                  Get(record, Col_create_time),
                                  Get(record, Col_start_time) >>), tz))

\* a mapper reads properties of its argument: of null that is a TypeError
MapperThrows(record) == record.null

\* processRecord: the mapper of the data type; what a mapper throws is
\* caught and null returned
processRecord(record, dataType, tz) ==
    IF MapperThrows(record) THEN << >>
    ELSE CASE dataType = "sleep" -> processSleepRecord(record, tz)
           [] dataType = "activity" -> processActivityRecord(record, tz)
           [] dataType = "vitals" -> processVitalsRecord(record, tz)
           [] OTHER -> processGenericRecord(record, dataType, tz)

\* ------------------------------------------------------------------------
\* parseCSVText: the text is split into lines, the lines into cells
\* ------------------------------------------------------------------------
\* String.prototype.trim
RECURSIVE TrimEnd(_)
TrimEnd(s) ==
    IF s # << >> /\ s[Len(s)] = " " THEN TrimEnd(SubSeq(s, 1, Len(s) - 1)) ELSE s

Trim(s) == TrimEnd(TrimStart(s))

\* the loop of parseCSVLine from character i on, with the cells found so
\* far, the cell being read and the quote flag
RECURSIVE ScanLine(_, _, _, _, _)
ScanLine(line, i, result, current, inQuotes) ==
    IF i > Len(line) THEN Append(result, Trim(current))
    ELSE IF line[i] = "\"" THEN ScanLine(line, i + 1, result, current, ~inQuotes)
    ELSE IF line[i] = "," /\ ~inQuotes
    THEN ScanLine(line, i + 1, Append(result, Trim(current)), << >>, inQuotes)
    ELSE ScanLine(line, i + 1, result, Append(current, line[i]), inQuotes)

\* a split at every comma, quoted or not, as line.split(',') gives
RECURSIVE TrimAll(_)
TrimAll(cells) ==
    IF cells = << >> THEN << >> ELSE << Trim(Head(cells)) >> \o TrimAll(Tail(cells))

NotQuote(c) == c # "\""

splitAtEveryComma(line) == TrimAll(Split(SelectSeq(line, NotQuote), ","))

parseCSVLine(line) == ScanLine(line, 1, << >>, << >>, FALSE)

\* the object built from the header and the cells of a row; a header name
\* that occurs twice keeps its last cell
RowRecord(headers, values) ==
    [null |-> FALSE,
     fields |-> [h \in Range(headers) |->
                   values[CHOOSE i \in 1..Len(headers) :
                             headers[i] = h /\ \A k \in (i + 1)..Len(headers) : headers[k] # h]]]

\* the records of one data row, values its cells
RecordsOfRow(headers, values, dataType, tz) ==
    IF Len(values) # Len(headers) THEN << >>
    ELSE processRecord(RowRecord(headers, values), dataType, tz)

\* a loop that leaves at the first row whose cell count differs from the
\* header's, where the source goes on to the next row
StopAtMalformedRow(lines, headers, dataType, tz) ==
    LET bad == FirstIndex([i \in 1..(Len(lines) - 1) |->
                              Len(parseCSVLine(lines[i + 1])) # Len(headers)])
        last == IF bad = 0 THEN Len(lines) - 1 ELSE bad - 1
    IN  Flatten([i \in 1..last |->
                    RecordsOfRow(headers, parseCSVLine(lines[i + 1]), dataType, tz)])

\* the loop of parseCSVText over the lines after the header
RecordsOfLines(lines, headers, dataType, tz) ==
    Flatten([i \in 1..(Len(lines) - 1) |->
                RecordsOfRow(headers, parseCSVLine(lines[i + 1]), dataType, tz)])

\* line.trim() is not empty
NotBlank(line) == Trim(line) # << >>

\* parseCSVText from the lines that are not blank on
ParseLines(lines, dataType, tz) ==
    IF Len(lines) < 2 THEN << >>
    ELSE RecordsOfLines(lines, parseCSVLine(lines[1]), dataType, tz)

parseCSVText(text, dataType, tz) ==
    ParseLines(SelectSeq(Split(text, "\n"), NotBlank), dataType, tz)

\* ------------------------------------------------------------------------
\* Dates of the clinical bundle parser.  The date member of a resource is a
\* string, a period object (kept by its start, empty when it has none) or
\* absent.
\* ------------------------------------------------------------------------
Period(start) == [t |-> "object", n |-> 0, s |-> start]

\* isNaN(date.getTime()) ? null : date.toISOString().split('T')[0]
DayOrNull(date) ==
    IF date.valid THEN Str(Split(toISOString(date), "T")[1]) ELSE Null

extractDate(dateValue, tz) ==
    IF Falsy(dateValue) THEN Null
    ELSE IF dateValue.t = "string" THEN DayOrNull(DateOfString(dateValue.s, tz))
    ELSE IF dateValue.t = "object" /\ dateValue.s # << >>
    THEN DayOrNull(DateOfString(dateValue.s, tz))
    ELSE Null

\* a date member that is the extracted date for every resource type
dateAsExtracted(resourceType, extracted, today) == extracted

\* the date member of the record a parse function builds from the date
\* extracted: parsePractitioner sets none, parseMedication and
\* parseCondition fall back to today
RecordDate(resourceType, extracted, today) ==
    CASE resourceType = "Practitioner" -> Null
      [] resourceType \in {"MedicationRequest", "MedicationStatement", "Condition"} ->
            IF Falsy(extracted) THEN Str(today) ELSE extracted
      [] OTHER -> extracted

\* a resource as parseResource reads it, its date member being dateValue
Resource(rt, dateValue, value, code, category, name, tz) ==
    Res(rt, ~Falsy(extractDate(dateValue, tz)), value, code, category, name, "")

\* the pushes of parseResource, each with the date member of its record
Dated(pushes, date) ==
    [i \in 1..Len(pushes) |->
        [list |-> pushes[i].list, rec |-> pushes[i].rec, date |-> date]]

parseDatedResource(r, tz, today) ==
    Dated(parseResource(Resource(r.resourceType, r.dateValue, r.value, r.code,
                                 r.category, r.name, tz)),
          RecordDate(r.resourceType, extractDate(r.dateValue, tz), today))

\* ------------------------------------------------------------------------
\* The lab document extractor (PDFParser).  A text is the sequence of its
\* characters.  Every pattern of labPatterns has the same shape: a label
\* out of a few alternatives, a gap, one number or two numbers around a
\* slash, white space and a unit.  A pattern is written as a record of
\* these parts, its letters in lower case because the patterns carry the
\* flag i, and is matched character by character the way the regular
\* expression engine does it: leftmost start, alternatives in order,
\* greedy repetition except for the lazy gap.
\* ------------------------------------------------------------------------
Whitespace == {" ", "\n"}

UpperLetters ==
    << "A", "B", "C", "D", "E", "F", "G", "H", "I", "J", "K", "L", "M",
           "N", "O", "P", "Q", "R", "S", "T", "U", "V", "W", "X", "Y",
           "Z" >>

LowerLetters ==
    << "a", "b", "c", "d", "e", "f", "g", "h", "i", "j", "k", "l", "m",
           "n", "o", "p", "q", "r", "s", "t", "u", "v", "w", "x", "y",
           "z" >>

LowerChar(c, k) == IF k = 0 THEN c ELSE LowerLetters[k]

\* String.prototype.toLowerCase
toLowerCase(s) ==
    [i \in 1..Len(s) |->
        LowerChar(s[i], FirstIndex([k \in 1..26 |-> UpperLetters[k] = s[i]]))]

\* text has the characters of w from position i on
At(text, i, w) ==
    /\ i + Len(w) - 1 <= Len(text)
    /\ SubSeq(text, i, i + Len(w) - 1) = w

\* String.prototype.includes
Contains(s, w) == \E i \in 1..Len(s) : At(s, i, w)

labPatterns ==
    << [testType |-> << "h", "e", "m", "o", "g", "l", "o", "b", "i", "n",
                        "-", "a", "1", "c" >>,
        patterns |-> <<
          [labels |-> << << "a", "1", "c" >>,
                        << "h", "b", "a", "1", "c" >>,
                        << "h", "e", "m", "o", "g", "l", "o", "b", "i",
                           "n", " ", "a", "1", "c" >> >>,
           gap |-> "sep", number |-> "dec", pair |-> FALSE, space |-> TRUE,
           units |-> << << "%" >> >>,
           optional |-> TRUE],
          [labels |-> << << "a", "1", "c" >> >>,
           gap |-> "lazy", number |-> "decdot", pair |-> FALSE, space |-> FALSE,
           units |-> << << "%" >> >>,
           optional |-> FALSE] >>],
       [testType |-> << "t", "o", "t", "a", "l", "-", "c", "h", "o", "l",
                        "e", "s", "t", "e", "r", "o", "l" >>,
        patterns |-> <<
          [labels |-> << << "t", "o", "t", "a", "l", " ", "c", "h", "o",
                           "l", "e", "s", "t", "e", "r", "o", "l" >>,
                        << "c", "h", "o", "l" >> >>,
           gap |-> "sep", number |-> "int", pair |-> FALSE, space |-> TRUE,
           units |-> << << "m", "g", "/", "d", "l" >>,
                       << "m", "g", "/", "d", "l" >> >>,
           optional |-> FALSE],
          [labels |-> << << "c", "h", "o", "l", "e", "s", "t", "e", "r",
                           "o", "l" >> >>,
           gap |-> "lazy", number |-> "int", pair |-> FALSE, space |-> TRUE,
           units |-> << << "m", "g", "/", "d", "l" >> >>,
           optional |-> FALSE] >>],
       [testType |-> << "l", "d", "l", "-", "c", "h", "o", "l", "e", "s",
                        "t", "e", "r", "o", "l" >>,
        patterns |-> <<
          [labels |-> << << "l", "d", "l" >>,
                        << "l", "o", "w", " ", "d", "e", "n", "s", "i",
                           "t", "y", " ", "l", "i", "p", "o", "p", "r",
                           "o", "t", "e", "i", "n" >> >>,
           gap |-> "sep", number |-> "int", pair |-> FALSE, space |-> TRUE,
           units |-> << << "m", "g", "/", "d", "l" >>,
                       << "m", "g", "/", "d", "l" >> >>,
           optional |-> FALSE],
          [labels |-> << << "l", "d", "l" >> >>,
           gap |-> "lazy", number |-> "int", pair |-> FALSE, space |-> TRUE,
           units |-> << << "m", "g", "/", "d", "l" >> >>,
           optional |-> FALSE] >>],
       [testType |-> << "h", "d", "l", "-", "c", "h", "o", "l", "e", "s",
                        "t", "e", "r", "o", "l" >>,
        patterns |-> <<
          [labels |-> << << "h", "d", "l" >>,
                        << "h", "i", "g", "h", " ", "d", "e", "n", "s",
                           "i", "t", "y", " ", "l", "i", "p", "o", "p",
                           "r", "o", "t", "e", "i", "n" >> >>,
           gap |-> "sep", number |-> "int", pair |-> FALSE, space |-> TRUE,
           units |-> << << "m", "g", "/", "d", "l" >>,
                       << "m", "g", "/", "d", "l" >> >>,
           optional |-> FALSE],
          [labels |-> << << "h", "d", "l" >> >>,
           gap |-> "lazy", number |-> "int", pair |-> FALSE, space |-> TRUE,
           units |-> << << "m", "g", "/", "d", "l" >> >>,
           optional |-> FALSE] >>],
       [testType |-> << "t", "r", "i", "g", "l", "y", "c", "e", "r", "i",
                        "d", "e", "s" >>,
        patterns |-> <<
          [labels |-> << << "t", "r", "i", "g", "l", "y", "c", "e", "r",
                           "i", "d", "e", "s" >>,
                        << "t", "r", "i", "g" >> >>,
           gap |-> "sep", number |-> "int", pair |-> FALSE, space |-> TRUE,
           units |-> << << "m", "g", "/", "d", "l" >>,
                       << "m", "g", "/", "d", "l" >> >>,
           optional |-> FALSE],
          [labels |-> << << "t", "r", "i", "g", "l", "y", "c", "e", "r",
                           "i", "d", "e", "s" >> >>,
           gap |-> "lazy", number |-> "int", pair |-> FALSE, space |-> TRUE,
           units |-> << << "m", "g", "/", "d", "l" >> >>,
           optional |-> FALSE] >>],
       [testType |-> << "g", "l", "u", "c", "o", "s", "e" >>,
        patterns |-> <<
          [labels |-> << << "g", "l", "u", "c", "o", "s", "e" >>,
                        << "g", "l", "u" >> >>,
           gap |-> "sep", number |-> "int", pair |-> FALSE, space |-> TRUE,
           units |-> << << "m", "g", "/", "d", "l" >>,
                       << "m", "g", "/", "d", "l" >> >>,
           optional |-> FALSE],
          [labels |-> << << "g", "l", "u", "c", "o", "s", "e" >> >>,
           gap |-> "lazy", number |-> "int", pair |-> FALSE, space |-> TRUE,
           units |-> << << "m", "g", "/", "d", "l" >> >>,
           optional |-> FALSE] >>],
       [testType |-> << "c", "r", "e", "a", "t", "i", "n", "i", "n", "e" >>,
        patterns |-> <<
          [labels |-> << << "c", "r", "e", "a", "t", "i", "n", "i", "n",
                           "e" >>,
                        << "c", "r", "e", "a", "t" >> >>,
           gap |-> "sep", number |-> "dec", pair |-> FALSE, space |-> TRUE,
           units |-> << << "m", "g", "/", "d", "l" >>,
                       << "m", "g", "/", "d", "l" >> >>,
           optional |-> FALSE] >>],
       [testType |-> << "b", "u", "n" >>,
        patterns |-> <<
          [labels |-> << << "b", "u", "n" >>,
                        << "b", "l", "o", "o", "d", " ", "u", "r", "e",
                           "a", " ", "n", "i", "t", "r", "o", "g", "e",
                           "n" >> >>,
           gap |-> "sep", number |-> "int", pair |-> FALSE, space |-> TRUE,
           units |-> << << "m", "g", "/", "d", "l" >>,
                       << "m", "g", "/", "d", "l" >> >>,
           optional |-> FALSE] >>],
       [testType |-> << "w", "e", "i", "g", "h", "t" >>,
        patterns |-> <<
          [labels |-> << << "w", "e", "i", "g", "h", "t" >>,
                        << "w", "t" >> >>,
           gap |-> "sep", number |-> "dec", pair |-> FALSE, space |-> TRUE,
           units |-> << << "l", "b", "s" >>,
                       << "l", "b" >>,
                       << "k", "g" >> >>,
           optional |-> FALSE],
          [labels |-> << << "w", "e", "i", "g", "h", "t" >> >>,
           gap |-> "lazy", number |-> "dec", pair |-> FALSE, space |-> TRUE,
           units |-> << << "l", "b", "s" >>,
                       << "l", "b" >>,
                       << "k", "g" >> >>,
           optional |-> FALSE] >>],
       [testType |-> << "b", "l", "o", "o", "d", "-", "p", "r", "e", "s",
                        "s", "u", "r", "e" >>,
        patterns |-> <<
          [labels |-> << << "b", "p" >>,
                        << "b", "l", "o", "o", "d", " ", "p", "r", "e",
                           "s", "s", "u", "r", "e" >> >>,
           gap |-> "sep", number |-> "int", pair |-> TRUE, space |-> FALSE,
           units |-> << >>,
           optional |-> TRUE],
          [labels |-> << >>,
           gap |-> "none", number |-> "int", pair |-> TRUE, space |-> TRUE,
           units |-> << << "m", "m", "h", "g" >>,
                       << "m", "m", " ", "h", "g" >> >>,
           optional |-> FALSE] >>],
       [testType |-> << "h", "e", "a", "r", "t", "-", "r", "a", "t", "e" >>,
        patterns |-> <<
          [labels |-> << << "h", "r" >>,
                        << "h", "e", "a", "r", "t", " ", "r", "a", "t",
                           "e" >>,
                        << "p", "u", "l", "s", "e" >> >>,
           gap |-> "sep", number |-> "int", pair |-> FALSE, space |-> TRUE,
           units |-> << << "b", "p", "m" >>,
                       << "b", "p", "m" >> >>,
           optional |-> TRUE] >>] >>

\* the position after the longest run of characters of set that starts at i
RunEnd(text, i, set) ==
    CHOOSE j \in i..(Len(text) + 1) :
        /\ \A k \in i..(j - 1) : text[k] \in set
        /\ j = Len(text) + 1 \/ text[j] \notin set

\* [0-9]+ at i: the position after it, 0 when there is no digit at i
DigitsEnd(text, i) ==
    IF i <= Len(text) /\ IsDigit(text[i])
    THEN RunEnd(text, i, Range(DigitChars))
    ELSE 0

\* the rest of ([0-9]+), ([0-9]+\.?[0-9]*) or ([0-9]+\.[0-9]+) after the
\* leading digits, which end at d
FractionEnd(text, d, number) ==
    IF d = 0 THEN 0
    ELSE IF number = "int" THEN d
    ELSE IF d <= Len(text) /\ text[d] = "."
    THEN IF number = "dec"
         THEN RunEnd(text, d + 1, Range(DigitChars))
         ELSE DigitsEnd(text, d + 1)
    ELSE IF number = "dec" THEN d ELSE 0

NumberEnd(text, i, number) == FractionEnd(text, DigitsEnd(text, i), number)

\* \/([0-9]+) after the first number, which ends at e
SecondEnd(text, e) ==
    IF e # 0 /\ e <= Len(text) /\ text[e] = "/"
    THEN DigitsEnd(text, e + 1)
    ELSE 0

\* the position after the number or the two numbers that start at p
NumbersEnd(pat, text, p) ==
    IF pat.pair
    THEN SecondEnd(text, DigitsEnd(text, p))
    ELSE NumberEnd(text, p, pat.number)

\* (?:a|b): the first alternative that text has at s, 0 when it has none
UnitAt(text, s, units) ==
    FirstIndex([k \in 1..Len(units) |-> At(text, s, units[k])])

\* the unit, alternative k, or its absence where a pattern lets it be absent
UnitEnd(pat, s, k) ==
    IF k # 0 THEN s + Len(pat.units[k])
    ELSE IF pat.optional THEN s
    ELSE 0

\* \s* and the unit after the numbers, which end at q
AfterNumbers(pat, text, q) ==
    IF q = 0 THEN 0
    ELSE IF pat.space
    THEN UnitEnd(pat, RunEnd(text, q, Whitespace),
                 UnitAt(text, RunEnd(text, q, Whitespace), pat.units))
    ELSE UnitEnd(pat, q, UnitAt(text, q, pat.units))

\* the position after the numbers and the unit that start at p, 0 when
\* the pattern does not match there
TailEnd(pat, text, p) == AfterNumbers(pat, text, NumbersEnd(pat, text, p))

\* where the number starts after a label that ends before j: after the
\* run [\s:]*, or at the first place that lets the pattern match when the
\* gap is the lazy [\s\S]*? (0 when there is no such place)
NumberStart(pat, text, j) ==
    IF pat.gap = "lazy"
    THEN FirstIndex([p \in 1..Len(text) |-> p >= j /\ TailEnd(pat, text, p) # 0])
    ELSE RunEnd(text, j, Whitespace \cup {":"})

\* a match: where it starts, where its first number starts, the position
\* after it; end is 0 when there is no match
Match(i, p, end) == [index |-> i, at |-> p, end |-> end]

Try(pat, text, i, p) ==
    Match(i, p, IF p = 0 THEN 0 ELSE TailEnd(pat, text, p))

TryLabel(pat, text, i, label) ==
    IF At(text, i, label)
    THEN Try(pat, text, i, NumberStart(pat, text, i + Len(label)))
    ELSE Match(i, 0, 0)

\* the first of the matches ms that is one
FirstMatch(ms, k) == IF k = 0 THEN Match(0, 0, 0) ELSE ms[k]

\* the match of pat that starts at i
MatchAt(pat, text, i) ==
    IF pat.labels = << >> THEN Try(pat, text, i, i)
    ELSE FirstMatch([k \in 1..Len(pat.labels) |-> TryLabel(pat, text, i, pat.labels[k])],
                    FirstIndex([k \in 1..Len(pat.labels) |->
                                   TryLabel(pat, text, i, pat.labels[k]).end # 0]))

\* the matches of a pattern with the flag g, from position from on: the
\* leftmost one, then the matches after its end
RECURSIVE MatchesFrom(_, _, _)
RECURSIVE NextMatch(_, _, _)
RECURSIVE MatchesAfter(_, _, _)
MatchesFrom(pat, text, from) ==
    NextMatch(pat, text,
              FirstIndex([i \in 1..Len(text) |->
                             i >= from /\ MatchAt(pat, text, i).end # 0]))

NextMatch(pat, text, i) ==
    IF i = 0 THEN << >> ELSE MatchesAfter(pat, text, MatchAt(pat, text, i))

MatchesAfter(pat, text, m) == << m >> \o MatchesFrom(pat, text, m.end)

\* [...text.matchAll(pattern)]: the positions are those of the text in
\* lower case, which are the positions of the text
matchAll(text, pat) == MatchesFrom(pat, toLowerCase(text), 1)

\* match[0], match[1] and match[2]
Matched(text, m) == SubSeq(text, m.index, m.end - 1)

Group1(pat, text, m) ==
    IF pat.pair
    THEN SubSeq(text, m.at, DigitsEnd(text, m.at) - 1)
    ELSE SubSeq(text, m.at, NumberEnd(text, m.at, pat.number) - 1)

Group2(text, m) ==
    SubSeq(text, DigitsEnd(text, m.at) + 1,
           SecondEnd(text, DigitsEnd(text, m.at)) - 1)

\* the digits of a fraction without its trailing zeros
RECURSIVE Significant(_)
Significant(ds) ==
    IF ds # << >> /\ ds[Len(ds)] = "0"
    THEN Significant(SubSeq(ds, 1, Len(ds) - 1))
    ELSE ds

\* a number with a fraction: n is its whole part, s the digits behind the
\* point, so that a whole number is Num(n)
Fraction(whole, rest) ==
    IF whole = << >> THEN NaN
    ELSE [t |-> "number", n |-> Decimal(whole),
          s |-> IF rest # << >> /\ Head(rest) = "."
                THEN Significant(LeadingDigits(Tail(rest)))
                ELSE << >>]

\* the global parseFloat on the text of a number
parseFloat(s) ==
    Fraction(LeadingDigits(s), SubSeq(s, Len(LeadingDigits(s)) + 1, Len(s)))

\* ------------------------------------------------------------------------
\* calculateConfidence.  A confidence is written in ten-thousandths.  The
\* sums are sums of doubles: 0.5 + 0.2 + 0.1 is 0.7999999999999999, below
\* the 0.8 of 0.5 + 0.3, and every other sum the function can form is the
\* double nearest to the decimal sum; Plus keeps that order.
\* ------------------------------------------------------------------------
Plus(x, y) == IF x = 7000 /\ y = 1000 THEN 7999 ELSE x + y

Min(a, b) == IF a <= b THEN a ELSE b

expectedUnits ==
    << << "m", "g", "/", "d", "L" >>,
           << "%" >>,
           << "b", "p", "m" >>,
           << "m", "m", "H", "g" >>,
           << "k", "g" >>,
           << "l", "b", "s" >> >>

\* matchedText.toLowerCase().includes(testType.replace('-', ' '))
HasLabel(matchedText, testType) ==
    Contains(toLowerCase(matchedText), ReplaceFirst(testType, "-", " "))

\* expectedUnits.some(unit => matchedText.includes(unit))
HasUnit(matchedText) ==
    \E k \in 1..Len(expectedUnits) : Contains(matchedText, expectedUnits[k])

Bonus(applies, amount) == IF applies THEN amount ELSE 0

\* the sum without Math.min
UncappedConfidence(matchedText, testType) ==
    Plus(Plus(Plus(5000, Bonus(HasLabel(matchedText, testType), 3000)),
              Bonus(HasUnit(matchedText), 2000)),
         Bonus(HasChar(matchedText, ":"), 1000))

calculateConfidence(matchedText, testType) ==
    Min(Plus(Plus(Plus(5000, Bonus(HasLabel(matchedText, testType), 3000)),
                  Bonus(HasUnit(matchedText), 2000)),
             Bonus(HasChar(matchedText, ":"), 1000)),
        10000)

\* ------------------------------------------------------------------------
\* The date of a lab document.  A date is looked for in the text with the
\* three patterns of datePatterns, then in the file name with the three
\* patterns of extractDateFromFileName.  The fields found are put together
\* and handed to the Date constructor: a text in the ISO format is read as
\* the standard says; any other text falls back to the parser of the
\* engine, which reads it as local midnight of the day or rejects it.
\* legacy is the set of the forms the engine reads: "month-first" for
\* 01-15-2023, "unpadded" for 2023-1-5, "month-name" for Jan 15, 2023.
\* ------------------------------------------------------------------------
\* the end of a run that starts at i and ends at e, read as [0-9]{min,max}
Bounded(i, e, width) ==
    IF e - i < width[1] THEN 0 ELSE Min(e, i + width[2])

\* [0-9]{min,max} at i: the position after it, 0 when it does not match
DigitField(text, i, width) ==
    IF i = 0 \/ i > Len(text) THEN 0
    ELSE Bounded(i, RunEnd(text, i, Range(DigitChars)), width)

\* one separator character at e: the position after it
SepEnd(text, e, seps) ==
    IF e # 0 /\ e <= Len(text) /\ text[e] \in seps THEN e + 1 ELSE 0

\* match[1], match[2] and match[3] of three digit fields between
\* separators, << >> when the last field did not match
Fields(text, i, e1, e2, e3) ==
    IF e3 = 0 THEN << >>
    ELSE << SubSeq(text, i, e1 - 1), SubSeq(text, e1 + 1, e2 - 1),
            SubSeq(text, e2 + 1, e3 - 1) >>

ThirdField(text, i, fmt, e1, e2) ==
    Fields(text, i, e1, e2, DigitField(text, SepEnd(text, e2, fmt.seps), fmt.widths[3]))

SecondField(text, i, fmt, e1) ==
    ThirdField(text, i, fmt, e1,
               DigitField(text, SepEnd(text, e1, fmt.seps), fmt.widths[2]))

DateAt(text, i, fmt) == SecondField(text, i, fmt, DigitField(text, i, fmt.widths[1]))

\* text.matchAll(pattern)[0] and fileName.match(pattern): the leftmost match
FirstDateAt(text, fmt, i) == IF i = 0 THEN << >> ELSE DateAt(text, i, fmt)

FirstDate(text, fmt) ==
    FirstDateAt(text, fmt,
                FirstIndex([i \in 1..Len(text) |-> DateAt(text, i, fmt) # << >>]))

YearFirst(seps) == [widths |-> << <<4, 4>>, <<1, 2>>, <<1, 2>> >>, seps |-> seps]

YearLast(seps) == [widths |-> << <<1, 2>>, <<1, 2>>, <<4, 4>> >>, seps |-> seps]

\* /([0-9]{8})/: the first eight digits in a row, cut into year, month, day
EightAt(text, i) ==
    IF i = 0 THEN << >>
    ELSE << SubSeq(text, i, i + 3), SubSeq(text, i + 4, i + 5),
            SubSeq(text, i + 6, i + 7) >>

EightDigits(text) ==
    EightAt(text, FirstIndex([i \in 1..Len(text) |->
                                 DigitField(text, i, <<8, 8>>) # 0]))

\* local midnight of the day y-m-d, when there is such a month and day
LocalMidnight(y, m, d, tz) ==
    IF m \in 1..12 /\ d \in 1..31
    THEN ZonedInstant(DaysFromCivil(y, m, d), 0, << >>, tz)
    ELSE InvalidDate

\* new Date(`${a}-${b}-${c}`) of three digit fields
DateOfFields(a, b, c, tz, legacy) ==
    IF Len(a) = 4 /\ Len(b) = 2 /\ Len(c) = 2
    THEN DateOfString(a \o << "-" >> \o b \o << "-" >> \o c, tz)
    ELSE IF Len(a) = 4
    THEN IF "unpadded" \in legacy
         THEN LocalMidnight(Decimal(a), Decimal(b), Decimal(c), tz)
         ELSE InvalidDate
    ELSE IF "month-first" \in legacy
    THEN LocalMidnight(Decimal(c), Decimal(a), Decimal(b), tz)
    ELSE InvalidDate

\* new Date(`${a}-${b}-${c}`) and, if it is a date, its day
DayOf(a, b, c, tz, legacy) == DayOrNull(DateOfFields(a, b, c, tz, legacy))

\* the fields joined in the order matched
DayOfYearFirst(match, tz, legacy) ==
    IF match = << >> THEN Null ELSE DayOf(match[1], match[2], match[3], tz, legacy)

\* the last field, the year, joined first
DayOfYearLast(match, tz, legacy) ==
    IF match = << >> THEN Null ELSE DayOf(match[3], match[1], match[2], tz, legacy)

extractDateFromFileName(fileName, tz, legacy) ==
    OrElse(<< DayOfYearFirst(FirstDate(fileName, YearFirst({"-", "_"})), tz, legacy),
              DayOfYearLast(FirstDate(fileName, YearLast({"-", "_"})), tz, legacy),
              DayOfYearFirst(EightDigits(fileName), tz, legacy) >>)

\* /([A-Za-z]{3,9})\s+([0-9]{1,2}),?\s+([0-9]{4})/ at i: a word, a day and
\* a year, << >> when it does not match
Letters == Range(UpperLetters) \cup Range(LowerLetters)

\* \s+ at e: the position after it
SpaceEnd(text, e) ==
    IF e = 0 \/ e > Len(text) \/ text[e] \notin Whitespace THEN 0
    ELSE RunEnd(text, e, Whitespace)

\* ,? at e
CommaEnd(text, e) ==
    IF e # 0 /\ e <= Len(text) /\ text[e] = "," THEN e + 1 ELSE e

WordEnd(text, i) ==
    IF RunEnd(text, i, Letters) - i \in 3..9 THEN RunEnd(text, i, Letters) ELSE 0

NamedFields(text, i, e1, d1, d2, y1, y2) ==
    IF y2 = 0 THEN << >>
    ELSE << SubSeq(text, i, e1 - 1), SubSeq(text, d1, d2 - 1), SubSeq(text, y1, y2 - 1) >>

NamedYear(text, i, e1, d1, d2, y1) ==
    NamedFields(text, i, e1, d1, d2, y1, DigitField(text, y1, <<4, 4>>))

NamedDay(text, i, e1, d1, d2) ==
    NamedYear(text, i, e1, d1, d2, SpaceEnd(text, CommaEnd(text, d2)))

NamedFrom(text, i, e1, d1) == NamedDay(text, i, e1, d1, DigitField(text, d1, <<1, 2>>))

MonthNameAt(text, i) == NamedFrom(text, i, WordEnd(text, i), SpaceEnd(text, WordEnd(text, i)))

FirstMonthNameAt(text, i) == IF i = 0 THEN << >> ELSE MonthNameAt(text, i)

FirstMonthName(text) ==
    FirstMonthNameAt(text, FirstIndex([i \in 1..Len(text) |-> MonthNameAt(text, i) # << >>]))

\* the month a three-letter abbreviation names, 0 for any other word
MonthNames ==
    << << "j", "a", "n" >>, << "f", "e", "b" >>, << "m", "a", "r" >>,
       << "a", "p", "r" >>, << "m", "a", "y" >>, << "j", "u", "n" >>,
       << "j", "u", "l" >>, << "a", "u", "g" >>, << "s", "e", "p" >>,
       << "o", "c", "t" >>, << "n", "o", "v" >>, << "d", "e", "c" >> >>

MonthOf(word) == FirstIndex([m \in 1..12 |-> MonthNames[m] = toLowerCase(word)])

\* new Date(`${match[1]} ${match[2]}, ${match[3]}`) and, if it is a date,
\* its day
DayOfMonthName(match, tz, legacy) ==
    IF match = << >> THEN Null
    ELSE IF "month-name" \in legacy /\ MonthOf(match[1]) # 0
    THEN DayOrNull(LocalMidnight(Decimal(match[3]), MonthOf(match[1]), Decimal(match[2]), tz))
    ELSE Null

\* extractDate(text, fileName) of the lab document parser.  The source of
\* the first pattern holds '([0-9]{4})' as the second does, so its fields
\* are joined in the order matched (line 183): month, day, year
extractDateOfText(text, fileName, tz, today, legacy) ==
    OrElse(<< DayOfYearFirst(FirstDate(text, YearLast({"/"})), tz, legacy),
              DayOfYearFirst(FirstDate(text, YearFirst({"-"})), tz, legacy),
              DayOfMonthName(FirstMonthName(text), tz, legacy),
              extractDateFromFileName(fileName, tz, legacy),
              Str(today) >>)

\* ------------------------------------------------------------------------
\* extractLabValues
\* ------------------------------------------------------------------------
BloodPressure ==
    << "b", "l", "o", "o", "d", "-", "p", "r", "e", "s", "s", "u", "r",
           "e" >>

SystolicBp ==
    << "s", "y", "s", "t", "o", "l", "i", "c", "-", "b", "p" >>

DiastolicBp ==
    << "d", "i", "a", "s", "t", "o", "l", "i", "c", "-", "b", "p" >>

LabValue(date, type, value, confidence) ==
    [date |-> date, type |-> type, value |-> value, confidence |-> confidence]

\* the record of a blood pressure match alone
OneOfPair(date, systolic, diastolic, confidence) ==
    IF systolic = NaN \/ diastolic = NaN THEN << >>
    ELSE << LabValue(date, BloodPressure, systolic, confidence) >>

PairOf(date, systolic, diastolic, confidence) ==
    IF systolic = NaN \/ diastolic = NaN THEN << >>
    ELSE << LabValue(date, SystolicBp, systolic, confidence),
            LabValue(date, DiastolicBp, diastolic, confidence) >>

SingleOf(date, testType, value, confidence) ==
    IF value = NaN THEN << >> ELSE << LabValue(date, testType, value, confidence) >>

\* the records pushed for one match m of pattern pat
RecordsOfMatch(testType, pat, text, m, date) ==
    IF testType = BloodPressure
    THEN PairOf(date, parseFloat(Group1(pat, text, m)), parseFloat(Group2(text, m)),
                calculateConfidence(Matched(text, m), testType))
    ELSE SingleOf(date, testType, parseFloat(Group1(pat, text, m)),
                  calculateConfidence(Matched(text, m), testType))

RecordsOfMatches(testType, pat, text, ms, date) ==
    Flatten([k \in 1..Len(ms) |-> RecordsOfMatch(testType, pat, text, ms[k], date)])

\* patterns.forEach(pattern => ...) for one test type
RecordsOfGroup(group, text, date) ==
    Flatten([k \in 1..Len(group.patterns) |->
                RecordsOfMatches(group.testType, group.patterns[k], text,
                                 matchAll(text, group.patterns[k]), date)])

\* the records pushed, in the order of the pushes
FoundRecords(text, date) ==
    Flatten([g \in 1..Len(labPatterns) |-> RecordsOfGroup(labPatterns[g], text, date)])

SameKey(r, record) ==
    r.type = record.type /\ r.value = record.value /\ r.date = record.date

\* the last record of a key instead of the first
lastIndex(self, record) ==
    CHOOSE k \in 1..Len(self) :
        /\ SameKey(self[k], record)
        /\ \A j \in (k + 1)..Len(self) : ~SameKey(self[j], record)

\* self.findIndex(r => ...)
findIndex(self, record) ==
    FirstIndex([k \in 1..Len(self) |-> SameKey(self[k], record)])

\* records.filter((record, index, self) => index === self.findIndex(...))
RECURSIVE FilterFrom(_, _)
FilterFrom(self, index) ==
    IF index > Len(self) THEN << >>
    ELSE (IF index = findIndex(self, self[index]) THEN << self[index] >> ELSE << >>)
         \o FilterFrom(self, index + 1)

\* where the sort puts record among sorted: behind the records whose
\* confidence is not lower, the sort being stable
InsertAt(sorted, record, k) ==
    IF k = 0 THEN Append(sorted, record)
    ELSE SubSeq(sorted, 1, k - 1) \o << record >> \o SubSeq(sorted, k, Len(sorted))

Insert(sorted, record) ==
    InsertAt(sorted, record,
             FirstIndex([k \in 1..Len(sorted) |->
                            sorted[k].confidence < record.confidence]))

\* uniqueRecords.sort((a, b) => (b.confidence || 0) - (a.confidence || 0))
RECURSIVE SortByConfidence(_)
SortByConfidence(records) ==
    IF records = << >> THEN << >>
    ELSE Insert(SortByConfidence(SubSeq(records, 1, Len(records) - 1)),
                records[Len(records)])

extractLabValues(text, fileName, tz, today, legacy) ==
    SortByConfidence(FilterFrom(FoundRecords(text,
                                             extractDateOfText(text, fileName, tz, today,
                                                               legacy)),
                                1))

\* ------------------------------------------------------------------------
\* processFHIRZip on an archive whose only JSON entry parses to doc: the
\* document passes the acceptance test and is handed to parseFHIRBundle, or
\* the scan ends with 'No valid FHIR bundle found in ZIP file'
\* ------------------------------------------------------------------------
processFHIRZip(doc) ==
    IF doc.valid /\ LooksLikeBundle(doc)
    THEN [accepted |-> TRUE, result |-> parseFHIRBundle(doc)]
    ELSE [accepted |-> FALSE, result |-> Threw]

\* ------------------------------------------------------------------------
\* preprocessRecords with the dates of the records: a record is kept by its
\* date and timestamp members and the two members the function adds; now is
\* new Date().toISOString() at the call
\* ------------------------------------------------------------------------
\* lines 551-553: a record without date and timestamp is dated now
DateOrNow(date, timestamp, now) ==
    IF Falsy(date) /\ Falsy(timestamp) THEN Str(now) ELSE date

\* new Date(record.date).toISOString(), which throws a RangeError for an
\* invalid date: the catch block dates the record now
IsoOrCaught(parsed, now) ==
    IF parsed.valid THEN Str(toISOString(parsed)) ELSE Str(now)

\* lines 556-562: a date that is a string and not empty is rewritten
IsoOrNow(date, tz, now) ==
    IF ~Falsy(date) /\ date.t = "string"
    THEN IsoOrCaught(DateOfString(date.s, tz), now)
    ELSE date

\* the callback of records.map
preprocessRecord(record, dataType, tz, now) ==
    [date |-> IsoOrNow(DateOrNow(record.date, record.timestamp, now), tz, now),
     timestamp |-> record.timestamp,
     dataType |-> dataType,
     importDate |-> Str(now)]

preprocessDatedRecords(records, dataType, tz, now) ==
    [i \in 1..Len(records) |-> preprocessRecord(records[i], dataType, tz, now)]

\* ------------------------------------------------------------------------
\* The parser functions called on their own.  input is the call and its
\* argument, output what it returned; the controller stays as constructed.
\* ------------------------------------------------------------------------
controller == <<loaded, call, items, previewData, importBtnDisabled, run, store, imports, ev>>

ControllerIdle ==
    /\ loaded = Parsers
    /\ call = [c \in Calls |-> IdleCall]
    /\ items = << >>
    /\ previewData = << >>
    /\ importBtnDisabled = TRUE
    /\ run = [r \in Runs |-> IdleRun]
    /\ store = [s \in Stores |-> << >>]
    /\ imports = << >>
    /\ ev = NoEvent

\* a call of fn is pending
Pending(fn) == input.fn = fn /\ output = NoCall

\* the call of fn returns ret
Return(fn, ret) ==
    /\ output' = [fn |-> fn, ret |-> ret]
    /\ UNCHANGED input
    /\ UNCHANGED controller

Returned(fn) == output.fn = fn

\* File names handed to detectFileType: one or two words, then an
\* extension or none
NameWords == {"samsung", "Samsung", "fhir", "FHIR", "patient", "allpatientdata", "report"}

NameExtensions == {"zip", "ZIP", "json", "csv", "pdf", "PDF", "txt"}

NameStems ==
    { << w >> : w \in NameWords } \cup { << v, "_", w >> : v \in NameWords, w \in NameWords }

FileNames ==
    NameStems \cup { stem \o << ".", e >> : stem \in NameStems, e \in NameExtensions }
        \cup { << e >> : e \in NameExtensions }

FileNamed(name) == [name |-> name, size |-> 1, lastModified |-> 1]

DetectInputs == { [fn |-> "detectFileType", file |-> FileNamed(n)] : n \in FileNames }

DetectFileType ==
    /\ Pending("detectFileType")
    /\ Return("detectFileType", detectFileType(input.file))

\* Number.prototype.toString of a natural number
RECURSIVE NumberToString(_)
NumberToString(n) ==
    IF n < 10 THEN << DigitChars[n + 1] >>
    ELSE NumberToString(n \div 10) \o << DigitChars[(n % 10) + 1] >>

\* Field values handed to the normalizers
TimeZones == {0 - 300, 0, 540}

SampleYears == {2023, 2024}
SampleMonths == {1, 2, 12}
SampleDays == {1, 15, 28}
SampleHours == {0, 10, 23}

DateStrings ==
    { Pad(y, 4) \o << "-" >> \o Pad(m, 2) \o << "-" >> \o Pad(d, 2) :
        y \in SampleYears, m \in SampleMonths, d \in SampleDays }

ClockStrings == { Pad(h, 2) \o << ":", "3", "0", ":", "0", "0" >> : h \in SampleHours }

GarbageStrings == { << "a", "b", "c" >>, << "N", "/", "A" >>, << "-" >> }

\* epoch milliseconds, as a CSV cell holds them
EpochStrings == { NumberToString(n) : n \in {0, 2023, MsPerDay, 20 * MsPerDay + 1} }

TimestampStrings ==
    DateStrings
      \cup { d \o << " " >> \o c : d \in DateStrings, c \in ClockStrings }
      \cup { d \o << "T" >> \o c : d \in DateStrings, c \in ClockStrings }
      \cup { d \o << "T" >> \o c \o << "Z" >> : d \in DateStrings, c \in ClockStrings }
      \cup { d \o << "T" >> \o c \o << ".", "0", "0", "0", "Z" >> :
               d \in DateStrings, c \in ClockStrings }
      \cup EpochStrings \cup GarbageStrings \cup { << >> }

TimestampValues == { Str(s) : s \in TimestampStrings } \cup { Null, Num(2023) }

TimestampInputs ==
    { [fn |-> f, arg |-> v, tz |-> z] :
        f \in {"parseTimestamp", "parseDate"}, v \in TimestampValues, z \in TimeZones }

DurationNumbers == {0, 45, 90, 5400000, MsPerDay, MsPerDay + 1, 2 * MsPerDay}

DurationStrings ==
    { NumberToString(n) : n \in DurationNumbers }
      \cup { Pad(h, 2) \o << ":" >> \o Pad(m, 2) \o << ":" >> \o Pad(s, 2) :
               h \in {0, 1, 2}, m \in {0, 30}, s \in {0, 59} }
      \cup { Pad(m, 2) \o << ":" >> \o Pad(s, 2) : m \in {1, 90}, s \in {0, 30} }
      \cup { << ":", "3", "0" >>, << "x", ":", "3", "0", ":", "0", "0" >>,
             << " ", "4", "5" >>, << "4", "5", "m" >>, << "1", ":", "2", ":", "3", ":", "4" >> }
      \cup GarbageStrings \cup { << >> }

DurationValues ==
    { Num(n) : n \in DurationNumbers } \cup { Str(s) : s \in DurationStrings } \cup { Null, NaN }

DurationInputs == { [fn |-> "parseDuration", arg |-> v] : v \in DurationValues }

ParseTimestamp ==
    /\ Pending("parseTimestamp")
    /\ Return("parseTimestamp", parseTimestamp(input.arg, input.tz))

ParseDate ==
    /\ Pending("parseDate")
    /\ Return("parseDate", parseDate(input.arg, input.tz))

ParseDuration ==
    /\ Pending("parseDuration")
    /\ Return("parseDuration", parseDuration(input.arg))

\* ------------------------------------------------------------------------
\* Rows and texts handed to the vendor export parser
\* ------------------------------------------------------------------------
\* marks a column the header does not name
Absent == << "undefined" >>

GoodStamp ==
    << "2", "0", "2", "3", "-", "0", "1", "-", "1", "5", " ",
       "2", "3", ":", "3", "0", ":", "0", "0" >>

DateCells == { Absent, << >>, GoodStamp, << "a", "b", "c" >> }

ValueCells == { Absent, << "7", "0" >> }

\* the record of the cells chosen for the columns
RecordOf(cells) ==
    [null |-> FALSE,
     fields |-> [c \in { k \in DOMAIN cells : cells[k] # Absent } |-> cells[c]]]

\* a record that is null: what a mapper cannot read
NullRecord == [null |-> TRUE, fields |-> << >>]

VitalsDateColumns == { Col_day, Col_date, Col_create_time }

VitalsValueColumns == { Col_weight, Col_heart_rate, Col_hr, Col_stress_level, Col_stress }

VitalsRecords ==
    { RecordOf(d @@ v) :
        d \in [VitalsDateColumns -> DateCells], v \in [VitalsValueColumns -> ValueCells] }

VitalsInputs ==
    { [fn |-> "processVitalsRecord", record |-> r, tz |-> z] :
        r \in VitalsRecords, z \in TimeZones }

DataTypes == { "sleep", "activity", "vitals", "floors" }

MixedRecords ==
    { RecordOf(d @@ v) :
        d \in [{ Col_day, Col_start_time } -> DateCells],
        v \in [{ Col_weight, Col_exercise_type } -> ValueCells] }
      \cup { NullRecord }

RecordInputs ==
    { [fn |-> "processRecord", record |-> r, dataType |-> t, tz |-> z] :
        r \in MixedRecords, t \in DataTypes, z \in TimeZones }

\* Array.prototype.join
RECURSIVE Join(_, _)
Join(ss, sep) ==
    IF ss = << >> THEN << >>
    ELSE IF Len(ss) = 1 THEN Head(ss)
    ELSE Head(ss) \o << sep >> \o Join(Tail(ss), sep)

MaxRows == 3

HeaderLine == Join(<< Col_day, Col_weight, Col_heart_rate >>, ",")

\* rows of the export: well formed ones, one with a cell short, one with a
\* cell too many, one whose quoted cell holds a comma, a blank line
RowLines ==
    { Join(<< GoodStamp, << "7", "0" >>, << >> >>, ","),
      Join(<< GoodStamp, << >>, << "6", "1" >> >>, ","),
      Join(<< GoodStamp, << >>, << >> >>, ","),
      Join(<< << "a", "b", "c" >>, << "7", "0" >>, << >> >>, ","),
      Join(<< GoodStamp, << "7", "0" >> >>, ","),
      Join(<< GoodStamp, << "7", "0" >>, << >>, << "x" >> >>, ","),
      Join(<< GoodStamp, << "\"", "7", "0", ",", "5", "\"" >>, << " ", "6", "1" >> >>, ","),
      << " " >> }

RowSeqs == UNION { [1..n -> RowLines] : n \in 0..MaxRows }

CsvTexts ==
    { Join(<< HeaderLine >> \o rows, "\n") : rows \in RowSeqs } \cup { << >> }

TextInputs ==
    { [fn |-> "parseCSVText", text |-> t, dataType |-> d, tz |-> z] :
        t \in CsvTexts, d \in { "vitals", "activity" }, z \in TimeZones }

ProcessVitalsRecord ==
    /\ Pending("processVitalsRecord")
    /\ Return("processVitalsRecord", processVitalsRecord(input.record, input.tz))

ProcessRecord ==
    /\ Pending("processRecord")
    /\ Return("processRecord", processRecord(input.record, input.dataType, input.tz))

ParseCSVText ==
    /\ Pending("parseCSVText")
    /\ Return("parseCSVText", parseCSVText(input.text, input.dataType, input.tz))

\* ------------------------------------------------------------------------
\* Resources handed to the clinical bundle parser
\* ------------------------------------------------------------------------
ResourceTypes ==
    { "Patient", "Practitioner", "Observation", "MedicationRequest",
      "MedicationStatement", "Encounter", "DiagnosticReport", "Condition",
      "Procedure", "Device" }

ObservationCodes ==
    { "", "4548-4", "2093-3", "18262-6", "2085-9", "2571-8", "29463-7", "8867-4",
      "99999-9" }

Categories == { "", "laboratory", "diagnostic", "vital-signs", "survey" }

IsoDay == << "2", "0", "2", "3", "-", "0", "1", "-", "1", "5" >>

DateMembers ==
    { Null, Str(IsoDay), Str(ReplaceFirst(GoodStamp, " ", "T")),
      Str(<< "a", "b", "c" >>), Period(IsoDay), Period(<< >>) }

\* new Date().toISOString().split('T')[0] on the day of the call
Today == << "2", "0", "2", "6", "-", "1", "1", "-", "0", "3" >>

ResourceInputs ==
    { [fn |-> "parseResource", tz |-> z, today |-> Today,
       resource |-> [resourceType |-> rt, dateValue |-> d, value |-> v, code |-> c,
                     category |-> g, name |-> n]] :
        z \in TimeZones, rt \in ResourceTypes, d \in DateMembers, v \in BOOLEAN,
        c \in ObservationCodes, g \in Categories, n \in BOOLEAN }

ParseResource ==
    /\ Pending("parseResource")
    /\ Return("parseResource", parseDatedResource(input.resource, input.tz, input.today))

\* The matched texts and the documents handed to the lab document
\* extractor: one or more findings, a space between them as between the
\* items of a page, and the space parseFile puts behind a page
LabPhrases ==
    { << "B", "P", ":", " ", "1", "2", "8", "/", "8", "2", " ", "m", "m",
         "H", "g" >>,
      << "B", "l", "o", "o", "d", " ", "P", "r", "e", "s", "s", "u", "r",
         "e", " ", "1", "2", "8", "/", "8", "2" >>,
      << "1", "2", "8", "/", "8", "2", " ", "m", "m", "H", "g" >>,
      << "G", "l", "u", "c", "o", "s", "e", " ", "G", "L", "U", ":", " ",
         "9", "5", " ", "m", "g", "/", "d", "L" >>,
      << "G", "l", "u", "c", "o", "s", "e", ":", " ", "9", "5", " ", "m",
         "g", "/", "d", "L" >>,
      << "G", "L", "U", " ", "9", "5", " ", "m", "g", "/", "d", "l" >>,
      << "H", "R", " ", "7", "2", " ", "b", "p", "m" >>,
      << "P", "u", "l", "s", "e", ":", " ", "7", "2" >>,
      << "A", "1", "C", ":", " ", "5", ".", "7", "%" >>,
      << "W", "e", "i", "g", "h", "t", ":", " ", "7", "0", ".", "5", " ",
         "k", "g" >>,
      << "C", "o", "l", "l", "e", "c", "t", "e", "d", " ", "2", "0", "2",
         "3", "-", "0", "1", "-", "1", "5" >> }

TestTypes == { labPatterns[g].testType : g \in 1..Len(labPatterns) }

ConfidenceInputs ==
    { [fn |-> "calculateConfidence", matchedText |-> t, testType |-> y] :
        t \in LabPhrases, y \in TestTypes }

MaxPhrases == 2

PhraseSeqs == UNION { [1..n -> LabPhrases] : n \in 1..MaxPhrases }

PageEnds == { << >>, << " " >> }

LabTexts == { Join(ps, " ") \o e : ps \in PhraseSeqs, e \in PageEnds }

LabFileNames ==
    { << "r", "e", "p", "o", "r", "t", ".", "p", "d", "f" >>,
      << "l", "a", "b", "s", "_", "2", "0", "2", "3", "-", "0", "2", "-",
           "2", "0", ".", "p", "d", "f" >>,
      << "l", "a", "b", "s", "_", "0", "2", "_", "2", "0", "_", "2", "0",
           "2", "3", ".", "p", "d", "f" >>,
      << "l", "a", "b", "s", "2", "0", "2", "3", "0", "2", "2", "0", ".",
           "p", "d", "f" >> }

\* the forms outside the ISO format that the Date constructor of an engine
\* reads
LegacyForms == { "month-first", "unpadded", "month-name" }

LabInputs ==
    { [fn |-> "extractLabValues", text |-> t, fileName |-> f, tz |-> z, today |-> Today,
       legacy |-> l] :
        t \in LabTexts, f \in LabFileNames, z \in TimeZones, l \in { {}, LegacyForms } }

CalculateConfidence ==
    /\ Pending("calculateConfidence")
    /\ Return("calculateConfidence", calculateConfidence(input.matchedText, input.testType))

ExtractLabValues ==
    /\ Pending("extractLabValues")
    /\ Return("extractLabValues",
              extractLabValues(input.text, input.fileName, input.tz, input.today,
                               input.legacy))

\* Lines handed to parseCSVLine: every line of up to MaxLineLen characters
\* out of a letter, a space, a comma and a double quote, and a row with a
\* quoted cell that holds a comma
MaxLineLen == 5

LineChars == { "A", " ", ",", "\"" }

QuotedRow == << "A", ",", "\"", "B", ",", "C", "\"", ",", "D" >>

CsvLines == UNION { [1..n -> LineChars] : n \in 0..MaxLineLen } \cup { QuotedRow }

LineInputs == { [fn |-> "parseCSVLine", line |-> l] : l \in CsvLines }

ParseCSVLine ==
    /\ Pending("parseCSVLine")
    /\ Return("parseCSVLine", parseCSVLine(input.line))

\* Documents found in an archive: a resourceType or none, an entry member
\* that is an array of up to MaxEntries entries, another object or absent
MaxEntries == 2

DatedEncounter == Res("Encounter", TRUE, FALSE, "", "", FALSE, "")

EntrySamples ==
    { [hasResource |-> TRUE, resource |-> DatedEncounter],
      [hasResource |-> TRUE,
       resource |-> Res("Observation", TRUE, TRUE, "4548-4", "", FALSE, "")],
      [hasResource |-> TRUE, resource |-> Res("Patient", FALSE, FALSE, "", "", FALSE, "")],
      [hasResource |-> FALSE, resource |-> Res("", FALSE, FALSE, "", "", FALSE, "")] }

EntryArrays == UNION { [1..n -> EntrySamples] : n \in 0..MaxEntries }

DocTypes == { "Bundle", "", "Encounter", "Patient" }

Documents ==
    { Doc(rt, "array", es) : rt \in DocTypes, es \in EntryArrays }
      \cup { Doc(rt, k, << >>) : rt \in DocTypes, k \in { "object", "none" } }
      \cup { [DatedEncounter EXCEPT !.entryKind = k] : k \in { "array", "none" } }
      \cup { InvalidJson }

DocumentInputs == { [fn |-> "processFHIRZip", doc |-> d] : d \in Documents }

ProcessFHIRZip ==
    /\ Pending("processFHIRZip")
    /\ Return("processFHIRZip", processFHIRZip(input.doc))

\* Records handed to preprocessRecords: the date member absent, empty as
\* the empty cell of a CSV row is, a date, a timestamp with or without
\* zone, a text that is no date, or a number; the timestamp member absent
\* or present
MaxRecords == 2

Now ==
    << "2", "0", "2", "6", "-", "1", "1", "-", "0", "3", "T", "0", "8", ":",
       "1", "5", ":", "3", "0", ".", "1", "2", "3", "Z" >>

RecordDates ==
    { Null, Str(<< >>), Str(IsoDay), Str(ReplaceFirst(GoodStamp, " ", "T")),
      Str(ReplaceFirst(GoodStamp, " ", "T") \o << ".", "0", "0", "0", "Z" >>),
      Str(<< "a", "b", "c" >>), Num(2023) }

RecordStamps == { Null, Str(ReplaceFirst(GoodStamp, " ", "T") \o << "Z" >>) }

RawRecords ==
    { [date |-> d, timestamp |-> t, dataType |-> "", importDate |-> Null] :
        d \in RecordDates, t \in RecordStamps }

RawRecordSeqs == UNION { [1..n -> RawRecords] : n \in 1..MaxRecords }

PreprocessInputs ==
    { [fn |-> "preprocessRecords", records |-> rs, dataType |-> d, tz |-> z, now |-> Now] :
        rs \in RawRecordSeqs, d \in { "vitals", "fhir-zip" }, z \in TimeZones }

PreprocessRecords ==
    /\ Pending("preprocessRecords")
    /\ Return("preprocessRecords",
              preprocessDatedRecords(input.records, input.dataType, input.tz, input.now))

\* Documents with a date line handed to extractDate: a date with slashes,
\* dates with hyphens (one zero-padded, one not, one that names no day), a
\* date with the month by name, a line without a date; each date another
\* day than the one in the file names
DatePhrases ==
    { << "D", "r", "a", "w", "n", " ", "0", "1", "/", "1", "5", "/", "2",
         "0", "2", "3" >>,
      << "R", "e", "p", "o", "r", "t", "e", "d", " ", "2", "0", "2", "3",
         "-", "0", "3", "-", "1", "0" >>,
      << "S", "e", "e", "n", " ", "2", "0", "2", "3", "-", "4", "-", "5" >>,
      << "R", "e", "f", " ", "2", "0", "2", "3", "-", "1", "3", "-", "4",
         "5" >>,
      << "P", "r", "i", "n", "t", "e", "d", " ", "J", "u", "n", " ", "2",
         "0", ",", " ", "2", "0", "2", "3" >>,
      << "H", "R", " ", "7", "2", " ", "b", "p", "m" >> }

DatePhraseSeqs == UNION { [1..n -> DatePhrases] : n \in 1..MaxPhrases }

DateTexts == { Join(ps, " ") : ps \in DatePhraseSeqs }

DateFileNames ==
    LabFileNames \cup { << "l", "a", "b", "s", "_", "2", "0", "2", "3", "-", "2", "-", "7",
         ".", "p", "d", "f" >> }

DateInputs ==
    { [fn |-> "extractDate", text |-> t, fileName |-> f, tz |-> z, today |-> Today,
       legacy |-> l] :
        t \in DateTexts, f \in DateFileNames, z \in TimeZones, l \in SUBSET LegacyForms }

ExtractDate ==
    /\ Pending("extractDate")
    /\ Return("extractDate",
              extractDateOfText(input.text, input.fileName, input.tz, input.today,
                                input.legacy))

ParserInit ==
    /\ ControllerIdle
    /\ output = NoCall
    /\ \/ input \in DetectInputs
       \/ input \in TimestampInputs
       \/ input \in DurationInputs
       \/ input \in VitalsInputs
       \/ input \in RecordInputs
       \/ input \in TextInputs
       \/ input \in ResourceInputs
       \/ input \in ConfidenceInputs
       \/ input \in LabInputs
       \/ input \in LineInputs
       \/ input \in DocumentInputs
       \/ input \in PreprocessInputs
       \/ input \in DateInputs

ParserNext ==
    \/ DetectFileType
    \/ ParseTimestamp
    \/ ParseDate
    \/ ParseDuration
    \/ ProcessVitalsRecord
    \/ ProcessRecord
    \/ ParseCSVText
    \/ ParseResource
    \/ CalculateConfidence
    \/ ExtractLabValues
    \/ ParseCSVLine
    \/ ProcessFHIRZip
    \/ PreprocessRecords
    \/ ExtractDate

ParserSpec == ParserInit /\ [][ParserNext]_vars

\* ------------------------------------------------------------------------
\* Properties of the parser functions
\* ------------------------------------------------------------------------
\* the name ends in a dot and the extension e
EndsWithDot(name, e) ==
    Len(name) >= 2 /\ name[Len(name)] = e /\ name[Len(name) - 1] = "."

\* C12: detectFileType depends only on the lower-cased file name and applies
\* its rules in fixed priority: a .zip naming samsung is a vendor export even
\* when it also names fhir or patient; a .zip naming fhir, allpatientdata or
\* patient is a clinical-bundle archive; every .json is a clinical bundle;
\* .csv is generic CSV; .pdf is a lab document; every other name, a .zip with
\* none of the keywords included, is unsupported.
C12_DetectionByNameInPriority ==
    Returned("detectFileType") =>
        LET name == Lower(input.file.name)
            zip == EndsWithDot(name, "zip")
            expected ==
                IF zip /\ Includes(name, "samsung") THEN "samsung-health-zip"
                ELSE IF zip /\ (Includes(name, "fhir") \/ Includes(name, "allpatientdata")
                                  \/ Includes(name, "patient")) THEN "fhir-zip"
                ELSE IF EndsWithDot(name, "json") THEN "fhir-json"
                ELSE IF EndsWithDot(name, "csv") THEN "csv"
                ELSE IF EndsWithDot(name, "pdf") THEN "pdf"
                ELSE "unknown"
        IN  /\ output.ret = expected
            /\ \A n \in FileNames, size \in 1..2 :
                  Lower(n) = name =>
                      detectFileType([FileNamed(n) EXCEPT !.size = size]) = output.ret

\* the string is two digits, a colon, two digits
IsMinuteSecond(s) ==
    Len(s) = 5 /\ s[3] = ":" /\ AllDigits(SubSeq(s, 1, 2) \o SubSeq(s, 4, 5))

\* C13: parseDuration returns whole minutes for both encodings and leaves
\* small minute values alone: the millisecond input 5400000 yields 90, the
\* input "01:30:00" yields 90 (every H:M:S and M:S string is converted to
\* minutes and floored), and the input 45 yields 45.
C13_DurationInWholeMinutes ==
    Returned("parseDuration") =>
        LET arg == input.arg
        IN  /\ arg = Num(5400000) => output.ret = Num(90)
            /\ arg = Str(<< "0", "1", ":", "3", "0", ":", "0", "0" >>) => output.ret = Num(90)
            /\ (arg.t = "string" /\ Len(arg.s) = 8 /\ arg.s[3] = ":" /\ arg.s[6] = ":"
                  /\ AllDigits(SubSeq(arg.s, 1, 2) \o SubSeq(arg.s, 4, 5) \o SubSeq(arg.s, 7, 8)))
                 => output.ret = Num(Decimal(SubSeq(arg.s, 1, 2)) * 60
                                       + Decimal(SubSeq(arg.s, 4, 5))
                                       + (Decimal(SubSeq(arg.s, 7, 8)) \div 60))
            /\ (arg.t = "string" /\ IsMinuteSecond(arg.s))
                 => output.ret = Num(Decimal(SubSeq(arg.s, 1, 2))
                                       + (Decimal(SubSeq(arg.s, 4, 5)) \div 60))
            /\ arg = Num(45) => output.ret = Num(45)

\* C14: field normalization is idempotent on canonical values: parseDate of a
\* date already in YYYY-MM-DD form returns that date, parseTimestamp of a
\* timestamp it produced returns that timestamp, parseDuration of a minute
\* count it produced returns that count.
C14_NormalizationIdempotent ==
    /\ (Returned("parseDate") /\ input.arg.t = "string" /\ IsDatePart(input.arg.s))
          => output.ret = input.arg
    /\ (Returned("parseTimestamp") /\ output.ret # Null)
          => parseTimestamp(output.ret, input.tz) = output.ret
    /\ (Returned("parseDuration") /\ output.ret.t = "number")
          => parseDuration(output.ret) = output.ret

\* the row has a value in the column
HasCell(record, col) == ~Falsy(Get(record, col))

\* the date of a vitals row: the first of day, date and create_time that
\* is not empty, when parseDate resolves it
VitalsDate(record, tz) ==
    parseDate(OrElse(<< Get(record, Col_day), Get(record, Col_date),
                        Get(record, Col_create_time) >>), tz)

OnlyWeight(record) ==
    /\ HasCell(record, Col_weight)
    /\ \A col \in VitalsValueColumns \ { Col_weight } : ~HasCell(record, col)

\* C19: processVitalsRecord yields at most one record per row: a row with a
\* resolvable date and only weight yields exactly one 'weight' record, a row
\* with none of weight, heart_rate/hr and stress_level/stress yields no
\* record, and a row without a resolvable date yields no record.
C19_VitalsRowYieldsAtMostOne ==
    Returned("processVitalsRecord") =>
        /\ Len(output.ret) <= 1
        /\ (VitalsDate(input.record, input.tz) # Null /\ OnlyWeight(input.record))
              => (Len(output.ret) = 1 /\ output.ret[1].type = "weight")
        /\ (\A col \in VitalsValueColumns : ~HasCell(input.record, col))
              => output.ret = << >>
        /\ VitalsDate(input.record, input.tz) = Null => output.ret = << >>

\* a dated row with only weight has been mapped to its weight record
C19_Witness ==
    /\ Returned("processVitalsRecord")
    /\ OnlyWeight(input.record)
    /\ Len(output.ret) = 1
    /\ output.ret[1].type = "weight"
    /\ output.ret[1].date = VitalsDate(input.record, input.tz)

\* the lines of the text that parseCSVText keeps
KeptLines(text) == SelectSeq(Split(text, "\n"), NotBlank)

\* line i of the kept lines has as many cells as the header
WellFormed(lines, i) == Len(parseCSVLine(lines[i])) = Len(parseCSVLine(lines[1]))

\* what the mapper returns for line i
RecordAt(lines, i, dataType, tz) ==
    processRecord(RowRecord(parseCSVLine(lines[1]), parseCSVLine(lines[i])), dataType, tz)

\* the data rows with the header's cell count whose mapper returned a record
Yielding(lines, dataType, tz) ==
    { i \in 2..Len(lines) : WellFormed(lines, i) /\ RecordAt(lines, i, dataType, tz) # << >> }

\* C20: in parseCSVText a row whose field count differs from the header's
\* yields no record, and so does a row whose mapper throws, while the other
\* rows are still processed: the number of records returned is the number of
\* rows with the header's field count whose mapper returned a record.
C20_MalformedRowsSkipped ==
    /\ (Returned("parseCSVText") /\ Len(KeptLines(input.text)) >= 2) =>
          LET lines == KeptLines(input.text)
              yielding == Yielding(lines, input.dataType, input.tz)
          IN  /\ Len(output.ret) = Cardinality(yielding)
              /\ \A i \in yielding :
                    \E k \in 1..Len(output.ret) :
                        output.ret[k] = RecordAt(lines, i, input.dataType, input.tz)[1]
    /\ (Returned("processRecord") /\ MapperThrows(input.record)) => output.ret = << >>

\* a text whose first data row is malformed and whose later row gave a record
C20_Witness ==
    /\ Returned("parseCSVText")
    /\ Len(KeptLines(input.text)) >= 3
    /\ ~WellFormed(KeptLines(input.text), 2)
    /\ 3 \in Yielding(KeptLines(input.text), input.dataType, input.tz)
    /\ Len(output.ret) >= 1

\* the Observation handed to parseResource has a date, a code and a value
ObservationParses ==
    /\ input.resource.resourceType = "Observation"
    /\ extractDate(input.resource.dateValue, input.tz) # Null
    /\ input.resource.code # ""
    /\ input.resource.value

\* C18: an Observation that parses is placed in exactly one of the two result
\* lists: in labResults if and only if its declared category is laboratory or
\* diagnostic or its code is one of the five lab codes, otherwise in vitals;
\* code 4548-4 with no declared category goes to labResults.
C18_ObservationInOneList ==
    (Returned("parseResource") /\ ObservationParses) =>
        /\ Len(output.ret) = 1
        /\ output.ret[1].list \in {"labResults", "vitals"}
        /\ output.ret[1].list = "labResults" <=>
              \/ input.resource.category \in {"laboratory", "diagnostic"}
              \/ input.resource.code \in {"4548-4", "2093-3", "18262-6", "2085-9", "2571-8"}
        /\ (input.resource.code = "4548-4" /\ input.resource.category = "")
              => output.ret[1].list = "labResults"

\* the A1C observation without category has been pushed to labResults
C18_Witness ==
    /\ Returned("parseResource")
    /\ ObservationParses
    /\ input.resource.code = "4548-4"
    /\ input.resource.category = ""
    /\ Len(output.ret) = 1
    /\ output.ret[1].list = "labResults"

\* ------------------------------------------------------------------------
\* The lab document extractor
\* ------------------------------------------------------------------------
\* the decimal sum of the base and of the bonuses that apply
DecimalSum(label, unit, colon) ==
    5000 + (IF label THEN 3000 ELSE 0) + (IF unit THEN 2000 ELSE 0)
         + (IF colon THEN 1000 ELSE 0)

\* x is the decimal sum capped at 1.0, or the double below 0.8 that
\* 0.5 + 0.2 + 0.1 comes to
IsCappedSum(x, sum) ==
    \/ x = (IF sum > 10000 THEN 10000 ELSE sum)
    \/ x = 7999 /\ sum = 8000

\* C16: calculateConfidence returns a value between 0.5 and 1.0 inclusive
\* for every matched text and test type: 0.5, plus 0.3 when the text holds
\* the label of the test type, plus 0.2 when it holds a unit token, plus 0.1
\* when it holds a colon, and 1.0 when all three bonuses apply.
C16_ConfidenceBounded ==
    Returned("calculateConfidence") =>
        /\ output.ret >= 5000
        /\ output.ret <= 10000
        /\ IsCappedSum(output.ret,
                       DecimalSum(HasLabel(input.matchedText, input.testType),
                                  HasUnit(input.matchedText),
                                  HasChar(input.matchedText, ":")))

\* the three bonuses applied to a matched text and the cap cut the sum
C16_Witness ==
    /\ Returned("calculateConfidence")
    /\ HasLabel(input.matchedText, input.testType)
    /\ HasUnit(input.matchedText)
    /\ HasChar(input.matchedText, ":")
    /\ output.ret = 10000

\* the records pushed by the call in input, in the order of the pushes
Pushed ==
    FoundRecords(input.text,
                 extractDateOfText(input.text, input.fileName, input.tz, input.today,
                                   input.legacy))

\* found[k] is the first record of found with the type, value and date of r
IsFirstOf(found, k, r) ==
    /\ SameKey(found[k], r)
    /\ \A j \in 1..(k - 1) : ~SameKey(found[j], r)

Deduplicated(out, found) ==
    /\ \A i \in 1..Len(out) : \A j \in 1..Len(out) :
          i # j => ~SameKey(out[i], out[j])
    /\ \A i \in 1..Len(out) : \E k \in 1..Len(found) :
          IsFirstOf(found, k, out[i]) /\ out[i] = found[k]
    /\ \A k \in 1..Len(found) : \E i \in 1..Len(out) : SameKey(out[i], found[k])
    /\ \A i \in 1..(Len(out) - 1) : out[i].confidence >= out[i + 1].confidence

\* C15: no two records of the output of extractLabValues share type, value
\* and date; of several matches with the same type, value and date the one
\* kept is the first in matcher-group, pattern and match order, with its own
\* confidence; the output is ordered by non-increasing confidence.
C15_FirstOccurrenceKept ==
    Returned("extractLabValues") => Deduplicated(output.ret, Pushed)

\* a later match repeated an earlier one with a higher confidence, and the
\* output holds the earlier one
HasBetterDuplicate(out, found) ==
    \E j \in 1..Len(found) : \E k \in 1..(j - 1) :
        /\ IsFirstOf(found, k, found[j])
        /\ found[k].confidence < found[j].confidence
        /\ \E i \in 1..Len(out) : out[i] = found[k]

C15_Witness ==
    /\ Returned("extractLabValues")
    /\ HasBetterDuplicate(output.ret, Pushed)

\* the digits at the end of s
TrailingDigits(s) ==
    SubSeq(s, Len(s) + 1 - Len(LeadingDigits([i \in 1..Len(s) |-> s[Len(s) + 1 - i]])),
           Len(s))

\* the number before and the number behind the slash of a matched text
NumberBeforeSlash(matched) == Num(Decimal(TrailingDigits(Split(matched, "/")[1])))

NumberBehindSlash(matched) == Num(Decimal(LeadingDigits(Split(matched, "/")[2])))

\* rs is a systolic and a diastolic record of the two numbers of matched
IsPressurePair(rs, matched) ==
    /\ Len(rs) = 2
    /\ rs[1].type = SystolicBp
    /\ rs[1].value = NumberBeforeSlash(matched)
    /\ rs[2].type = DiastolicBp
    /\ rs[2].value = NumberBehindSlash(matched)
    /\ rs[1].date = rs[2].date
    /\ rs[1].confidence = rs[2].confidence

\* every match of a blood pressure pattern pushes such a pair
PairsPushed(text, patterns, date) ==
    \A k \in 1..Len(patterns) : \A m \in Range(matchAll(text, patterns[k])) :
        IsPressurePair(RecordsOfMatch(BloodPressure, patterns[k], text, m, date),
                       Matched(text, m))

PressurePatterns ==
    labPatterns[FirstIndex([g \in 1..Len(labPatterns) |->
                               labPatterns[g].testType = BloodPressure])].patterns

PressureExample ==
    << "B", "P", ":", " ", "1", "2", "8", "/", "8", "2", " ", "m", "m",
           "H", "g" >>

\* out is a systolic record of 128 and a diastolic record of 82 of one date
IsExampleOutput(out) ==
    /\ Len(out) = 2
    /\ out[1].type = SystolicBp /\ out[1].value = Num(128)
    /\ out[2].type = DiastolicBp /\ out[2].value = Num(82)
    /\ out[1].date = out[2].date

\* C17: every blood pressure match produces exactly two records,
\* 'systolic-bp' with the first number and 'diastolic-bp' with the second,
\* of the same date and the same confidence; for the text "BP: 128/82 mmHg"
\* the output of extractLabValues is exactly two records, systolic 128 and
\* diastolic 82.
C17_BloodPressureYieldsPair ==
    Returned("extractLabValues") =>
        /\ PairsPushed(input.text, PressurePatterns,
                       extractDateOfText(input.text, input.fileName, input.tz,
                                         input.today, input.legacy))
        /\ input.text = PressureExample => IsExampleOutput(output.ret)

\* the example text has gone through extractLabValues, both patterns
\* having matched it
C17_Witness ==
    /\ Returned("extractLabValues")
    /\ input.text = PressureExample
    /\ \A k \in 1..2 : Len(matchAll(input.text, PressurePatterns[k])) = 1
    /\ IsExampleOutput(output.ret)

\* ------------------------------------------------------------------------
\* The dates of the records
\* ------------------------------------------------------------------------
\* v is a string in YYYY-MM-DD form
IsDay(v) == v.t = "string" /\ IsDatePart(v.s)

AllDated(records) == \A i \in 1..Len(records) : IsDay(records[i].date)

DateColumns == { Col_day, Col_date, Col_create_time, Col_start_time, Col_startTime }

\* a date can be derived from a cell of the row
RowHasDate(record, tz) ==
    \E col \in DateColumns : parseDate(Get(record, col), tz) # Null

\* C11: every record returned by the vendor export parser, the clinical
\* bundle parser and the lab document parser has a non-null date in
\* YYYY-MM-DD form, and a row or a resource from which no date can be derived
\* produces no record.
C11_EveryRecordDated ==
    /\ (Returned("processRecord") \/ Returned("processVitalsRecord")) =>
          /\ AllDated(output.ret)
          /\ ~RowHasDate(input.record, input.tz) => output.ret = << >>
    /\ (Returned("parseCSVText") \/ Returned("extractLabValues")) =>
          AllDated(output.ret)
    /\ Returned("parseResource") =>
          /\ AllDated(output.ret)
          /\ extractDate(input.resource.dateValue, input.tz) = Null => output.ret = << >>

\* the double quotes of the line before position i
QuotesBefore(line, i) == Cardinality({ k \in 1..(i - 1) : line[k] = "\"" })

\* the commas of the line outside double-quoted sections: those with an
\* even number of double quotes before them
UnquotedCommas(line) ==
    { i \in 1..Len(line) : line[i] = "," /\ QuotesBefore(line, i) % 2 = 0 }

\* the position of the k-th unquoted comma; 0 before the first field and
\* the position behind the line after the last
Cut(line, k) ==
    IF k = 0 THEN 0
    ELSE IF k > Cardinality(UnquotedCommas(line)) THEN Len(line) + 1
    ELSE CHOOSE i \in UnquotedCommas(line) :
            Cardinality({ j \in UnquotedCommas(line) : j < i }) = k - 1

\* the k-th field: the text between two cuts, quote characters left out,
\* trimmed
FieldBetween(line, k) ==
    Trim(SelectSeq(SubSeq(line, Cut(line, k - 1) + 1, Cut(line, k) - 1), NotQuote))

\* C21: parseCSVLine splits a line on exactly those commas that lie outside
\* double-quoted sections, so the number of fields is one more than the
\* number of unquoted commas and each field is the text between two of them;
\* the row A,"B,C",D yields three fields, the second holding the comma.
C21_SplitOnUnquotedCommas ==
    Returned("parseCSVLine") =>
        /\ Len(output.ret) = 1 + Cardinality(UnquotedCommas(input.line))
        /\ \A k \in 1..Len(output.ret) : output.ret[k] = FieldBetween(input.line, k)
        /\ input.line = QuotedRow =>
              output.ret = << << "A" >>, << "B", ",", "C" >>, << "D" >> >>

C21_Witness ==
    /\ Returned("parseCSVLine")
    /\ input.line = QuotedRow
    /\ Len(output.ret) = 3
    /\ HasChar(output.ret[2], ",")

\* a colon-delimited duration: two or three runs of digits between colons
IsColonDuration(s) ==
    /\ Len(Split(s, ":")) \in {2, 3}
    /\ \A k \in 1..Len(Split(s, ":")) :
          Split(s, ":")[k] # << >> /\ AllDigits(Split(s, ":")[k])

\* a string made of digits only
IsNumeric(s) == s # << >> /\ AllDigits(s)

\* an input no duration can be read from: nothing, or a string that
\* neither starts with a number nor is a colon-delimited duration
Unparseable(v) ==
    \/ v \in {Null, NaN}
    \/ v.t = "string" /\ parseInt(v.s) = NaN /\ ~IsColonDuration(v.s)

\* C22: for a purely numeric duration string n, parseDuration returns
\* floor(n / 60000) when n exceeds 86,400,000 and n unchanged otherwise;
\* unparseable input yields 0.
C22_NumericStringsAndGarbage ==
    Returned("parseDuration") =>
        /\ (input.arg.t = "string" /\ IsNumeric(input.arg.s)) =>
              output.ret = IF Decimal(input.arg.s) > MsPerDay
                           THEN Num(Decimal(input.arg.s) \div MsPerMinute)
                           ELSE Num(Decimal(input.arg.s))
        /\ Unparseable(input.arg) => output.ret = Num(0)

\* the part of C22 on numeric strings
NumericStringsConverted ==
    (Returned("parseDuration") /\ input.arg.t = "string" /\ IsNumeric(input.arg.s)) =>
        output.ret = IF Decimal(input.arg.s) > MsPerDay
                     THEN Num(Decimal(input.arg.s) \div MsPerMinute)
                     ELSE Num(Decimal(input.arg.s))

\* date members no date can be extracted from: none, a string that is no
\* date, a period without start
UndatedMembers == { Null, Str(<< "a", "b", "c" >>), Period(<< >>) }

\* C24: in the clinical bundle parser a missing or invalid date drops an
\* Observation, an Encounter, a DiagnosticReport and a Procedure (no record
\* is pushed), whereas a MedicationRequest or MedicationStatement with an
\* extractable name and a Condition are still pushed, dated today.
C24_DateFallbackByType ==
    (Returned("parseResource") /\ input.resource.dateValue \in UndatedMembers) =>
        /\ input.resource.resourceType
              \in {"Observation", "Encounter", "DiagnosticReport", "Procedure"}
             => output.ret = << >>
        /\ (input.resource.resourceType \in {"MedicationRequest", "MedicationStatement"}
              /\ input.resource.name)
             => /\ Len(output.ret) = 1
                /\ output.ret[1].list = "medications"
                /\ output.ret[1].date = Str(input.today)
        /\ input.resource.resourceType = "Condition"
             => /\ Len(output.ret) = 1
                /\ output.ret[1].list = "conditions"
                /\ output.ret[1].date = Str(input.today)

C24_Witness ==
    /\ Returned("parseResource")
    /\ input.resource.resourceType = "MedicationRequest"
    /\ input.resource.dateValue = Str(<< "a", "b", "c" >>)
    /\ input.resource.name
    /\ Len(output.ret) = 1
    /\ output.ret[1].date = Str(Today)

\* an Observation with code and value but no date is dropped
UndatedObservationDropped ==
    /\ Returned("parseResource")
    /\ input.resource.resourceType = "Observation"
    /\ input.resource.dateValue = Null
    /\ input.resource.value
    /\ input.resource.code = "8867-4"
    /\ output.ret = << >>

\* the pairs of codeMap: a code and the vocabulary type it stands for
codeMap ==
    { << "29463-7", "weight" >>, << "39156-5", "bmi" >>,
      << "85354-9", "blood-pressure" >>, << "8480-6", "systolic-bp" >>,
      << "8462-4", "diastolic-bp" >>, << "8867-4", "heart-rate" >>,
      << "4548-4", "hemoglobin-a1c" >>, << "2093-3", "total-cholesterol" >>,
      << "18262-6", "ldl-cholesterol" >>, << "2085-9", "hdl-cholesterol" >>,
      << "2571-8", "triglycerides" >>, << "8310-5", "body-temperature" >>,
      << "9279-1", "respiratory-rate" >>, << "2710-2", "oxygen-saturation" >> }

\* an Observation that parseObservation turns into a record: it has a
\* date, a coding and a value
Emittable(resource, tz) ==
    /\ resource.resourceType = "Observation"
    /\ ~Falsy(extractDate(resource.dateValue, tz))
    /\ resource.code # ""
    /\ resource.value

EntryRecords(doc) ==
    Flatten([i \in 1..Len(doc.entry) |-> EntryResource(doc.entry[i])])

\* C29: every JSON document that processFHIRZip accepts as the bundle
\* (resourceType 'Bundle', or an entry array present) has each resource of
\* its entry array dispatched to parseResource by parseFHIRBundle: the
\* records returned are those of its entries.
C29_AcceptedBundleIsParsed ==
    (Returned("processFHIRZip") /\ output.ret.accepted /\ input.doc.entryKind = "array") =>
        /\ ~output.ret.result.threw
        /\ Len(output.ret.result.records) = Len(EntryRecords(input.doc))
        /\ \A i \in 1..Len(EntryRecords(input.doc)) :
              EntryRecords(input.doc)[i].rec \in Range(output.ret.result.records)

\* the part of C29 on documents whose resourceType is 'Bundle'
BundleEntriesParsed ==
    (Returned("processFHIRZip") /\ input.doc.resourceType = "Bundle"
        /\ input.doc.entryKind = "array") =>
        /\ output.ret.accepted
        /\ ~output.ret.result.threw
        /\ Len(output.ret.result.records) = Len(EntryRecords(input.doc))
        /\ \A i \in 1..Len(EntryRecords(input.doc)) :
              EntryRecords(input.doc)[i].rec \in Range(output.ret.result.records)

\* the text of an instant as toISOString writes it: YYYY-MM-DDTHH:MM:SS.sssZ
IsIsoInstant(s) ==
    /\ Len(s) = 24
    /\ IsDatePart(SubSeq(s, 1, 10))
    /\ s[11] = "T"
    /\ IsTimePart(SubSeq(s, 12, 19))
    /\ s[20] = "."
    /\ AllDigits(SubSeq(s, 21, 23))
    /\ s[24] = "Z"

\* new is the ISO form of the date string old, or now when old is no date
IsIsoFormOrNow(old, new, tz, now) ==
    IF DateOfString(old, tz).valid
    THEN IsIsoInstant(new) /\ DateOfString(new, tz) = DateOfString(old, tz)
    ELSE new = now

\* what C26 says of one record and what preprocessRecords made of it
Preprocessed(old, new, dataType, tz, now) ==
    /\ new.dataType = dataType
    /\ new.importDate = Str(now)
    /\ (old.date = Null /\ old.timestamp = Null) => new.date = Str(now)
    /\ old.date.t = "string" =>
          new.date.t = "string" /\ IsIsoFormOrNow(old.date.s, new.date.s, tz, now)
    /\ new.date.t = "string" => DateOfString(new.date.s, tz).valid

\* C26: after preprocessRecords every record carries dataType and
\* importDate; every record with neither date nor timestamp has the current
\* time as its date; every record whose date was a string has it replaced
\* by its ISO form, or by the current time when the string does not parse,
\* so no record is handed to the store with an unparseable date string.
C26_DatesNormalized ==
    Returned("preprocessRecords") =>
        /\ Len(output.ret) = Len(input.records)
        /\ \A i \in 1..Len(input.records) :
              Preprocessed(input.records[i], output.ret[i], input.dataType, input.tz,
                           input.now)

\* the same for the records whose date is not the empty string
NonEmptyDatesNormalized ==
    Returned("preprocessRecords") =>
        \A i \in 1..Len(input.records) :
            input.records[i].date # Str(<< >>) =>
                Preprocessed(input.records[i], output.ret[i], input.dataType, input.tz,
                             input.now)

\* the day y-m-d written out, when there is such a month and day
WrittenDay(y, m, d) ==
    IF m \in 1..12 /\ d \in 1..31
    THEN { Pad(y, 4) \o << "-" >> \o Pad(m, 2) \o << "-" >> \o Pad(d, 2) }
    ELSE {}

\* the day of a match whose fields are month, day, year
MonthFirstDay(match) ==
    IF match = << >> THEN {}
    ELSE WrittenDay(Decimal(match[3]), Decimal(match[1]), Decimal(match[2]))

\* the day of a match whose fields are year, month, day
YearFirstDay(match) ==
    IF match = << >> THEN {}
    ELSE WrittenDay(Decimal(match[1]), Decimal(match[2]), Decimal(match[3]))

\* the day of a match whose fields are a month name, day, year
NamedMonthDay(match) ==
    IF match = << >> THEN {}
    ELSE WrittenDay(Decimal(match[3]), MonthOf(match[1]), Decimal(match[2]))

\* the valid dates found in the text: for each of the three shapes the day
\* its first match writes
DatesInText(text) ==
    MonthFirstDay(FirstDate(text, YearLast({"/"})))
      \cup YearFirstDay(FirstDate(text, YearFirst({"-"})))
      \cup NamedMonthDay(FirstMonthName(text))

\* the valid dates found in the file name
DatesInFileName(fileName) ==
    YearFirstDay(FirstDate(fileName, YearFirst({"-", "_"})))
      \cup MonthFirstDay(FirstDate(fileName, YearLast({"-", "_"})))
      \cup YearFirstDay(EightDigits(fileName))

\* date is resolved from the text, else from the file name, else is today
ResolvedInOrder(date, text, fileName, today) ==
    /\ date.t = "string"
    /\ IsDatePart(date.s)
    /\ DatesInText(text) # {} => date.s \in DatesInText(text)
    /\ (DatesInText(text) = {} /\ DatesInFileName(fileName) # {})
          => date.s \in DatesInFileName(fileName)
    /\ (DatesInText(text) = {} /\ DatesInFileName(fileName) = {}) => date.s = today

\* every record carries the date
AllCarry(records, date) == \A i \in 1..Len(records) : records[i].date = date

\* C27: the date of a lab document is resolved by a fallback chain in which
\* the first success wins: a valid date found in the text is used whatever
\* the file name holds; otherwise a valid date found in the file name;
\* otherwise today; the result is never null and every record of one
\* extraction carries that date.
C27_DateResolvedInOrder ==
    /\ Returned("extractDate") =>
          ResolvedInOrder(output.ret, input.text, input.fileName, input.today)
    /\ Returned("extractLabValues") =>
          AllCarry(output.ret,
                   extractDateOfText(input.text, input.fileName, input.tz, input.today,
                                     input.legacy))

\* the date is never null, and every record of an extraction carries it
DateNeverNull ==
    /\ Returned("extractDate") => output.ret.t = "string" /\ IsDatePart(output.ret.s)
    /\ Returned("extractLabValues") =>
          AllCarry(output.ret,
                   extractDateOfText(input.text, input.fileName, input.tz, input.today,
                                     input.legacy))

\* the text and the file name write their dates in the ISO format
IsoWritten(text, fileName) ==
    /\ FirstDate(text, YearLast({"/"})) = << >>
    /\ FirstMonthName(text) = << >>
    /\ FirstDate(text, YearFirst({"-"})) # << >> =>
          Len(Flatten(FirstDate(text, YearFirst({"-"})))) = 8
    /\ FirstDate(fileName, YearFirst({"-", "_"})) # << >> =>
          Len(Flatten(FirstDate(fileName, YearFirst({"-", "_"})))) = 8

\* the chain on documents and names that write their dates in the ISO
\* format
IsoDatesResolvedInOrder ==
    (Returned("extractDate") /\ IsoWritten(input.text, input.fileName)) =>
        ResolvedInOrder(output.ret, input.text, input.fileName, input.today)

\* ------------------------------------------------------------------------
\* Further properties of the controller
\* ------------------------------------------------------------------------
\* the keys of the mapping table of mapDataTypeToStore
MappingKeys ==
    { "vitals", "sleep", "activity", "medications", "lab-results", "providers",
      "encounters", "samsung-health-export", "fhir-bundle" }

\* C30: for every file accepted into the preview set, the data type that
\* importAllData hands to mapDataTypeToStore (and stamps on the records) is
\* a key of the mapping table, so the default 'vitals' is never taken; the
\* records of a lab document (.pdf) are written to labResults.
C30_StoreMappedFromKnownType ==
    \A s \in Stores : \A k \in 1..Len(store[s]) :
        /\ store[s][k].dataType \in MappingKeys
        /\ FileType(store[s][k].file) = "pdf" => s = "labResults"

\* the file the handleFiles call c is processing
CurrentFile(c) == call[c].batch[call[c].i]

\* the JSON entries of archive f behind entry j
LaterJson(f, j) ==
    { k \in (j + 1)..Len(FilePool[f].content) : FilePool[f].content[k].json }

\* the scan of archive f moves from entry j to the next JSON entry
MovesOn(c, f, j) ==
    /\ call'[c].pc = "scan"
    /\ call'[c].i = call[c].i
    /\ call'[c].j \in LaterJson(f, j)
    /\ \A k \in LaterJson(f, j) : call'[c].j <= k
    /\ previewData' = previewData

\* processFile ends for archive f with the parse of document doc
EndsParsed(f, doc) ==
    /\ ev'.op = "processFile" /\ ev'.file = f /\ ~ev'.threw
    /\ doc.valid
    /\ doc.resourceType = "Bundle" \/ doc.entryKind = "array"
    /\ ev'.n = Len(parseFHIRBundle(doc).records)

\* processFile ends for archive f with an error, no JSON entry being left;
\* its status item shows 'error' unless clearPreview has emptied the list
EndsWithoutBundle(f, j) ==
    /\ ev'.op = "processFile" /\ ev'.file = f /\ ev'.threw
    /\ LaterJson(f, j) = {}
    /\ (Shown(f))' \in {"error", "none"}
    /\ (Shown(f))' = "none" <=> Shown(f) = "none"
    /\ previewData' = previewData

\* a step of the scan of call c that stood at entry j of archive f
ScanStep(c, f, j) ==
    /\ \/ MovesOn(c, f, j)
       \/ call'[c].pc # "scan" /\ EndsParsed(f, FilePool[f].content[j].doc)
       \/ call'[c].pc # "scan" /\ EndsWithoutBundle(f, j)
    /\ (~FilePool[f].content[j].doc.valid /\ LaterJson(f, j) # {}) => MovesOn(c, f, j)

SuccessfulEnd == ev'.op = "importAllData" /\ ev'.run.outcome = "success"

\* C28: every preview entry removed by the clearPreview that ends a
\* successful importAllData has had its records written to the store and
\* its ledger entry appended, also when a handleFiles call added a completed
\* file to the preview set while importAllData was suspended at a store
\* call: no processed file is discarded without being imported.
C28_NothingDiscardedUnimported ==
    [][SuccessfulEnd =>
          \A k \in 1..Len(previewData) :
              /\ previewData' = << >>
              /\ Written(previewData[k].file)
              /\ LedgerOf(previewData[k].file) # {}]_vars

\* the entries present when importAllData began are imported before its
\* clearPreview: a call that found entries and ended with success wrote
\* records and made a ledger entry for each file it visited
VisitedEntriesImported ==
    [][SuccessfulEnd =>
          (ev'.run.nFiles > 0 => ev'.run.wrote /\ Len(imports) >= ev'.run.nFiles)]_vars

====
